---------------------------- MODULE Spec2Model ----------------------------
(***************************************************************************)
(* Ingestion pipeline of the LLM tracker: the WebSocket ingestion server   *)
(* (desktop-app/websocket-server.js) and the SQLite store                  *)
(* (desktop-app/database.js with database-schema.sql).                     *)
(*                                                                         *)
(* The store is the five tables the server writes.  Every statement is run *)
(* by better-sqlite3 in autocommit mode: it either commits as a whole,     *)
(* trigger included, or throws and leaves the tables as they were.         *)
(* JavaScript callbacks run to completion, so the model keeps the running  *)
(* callback in `stack` and only starts another one when it is empty.       *)
(***************************************************************************)
EXTENDS Integers, Sequences, FiniteSets, TLC

\* ------------------------------------------------------------------ bounds
MaxTime == 2          \* timestamps and Date.now() readings are 1..MaxTime
MaxCalls == 3         \* direct store calls made in one run
MaxEnvelopes == 2     \* envelopes delivered to the server in one run

\* ------------------------------------------------------------ value space
NULL == -1            \* SQL NULL / JS undefined in a numeric position
NullStr == "NULL"     \* SQL NULL / JS undefined in a text position

Times == 1..MaxTime
ConvIds == {"c1", "c2"}
MsgIds == {"m1", "m2"}
CapIds == {"a1"}
ChunkIds == {"k1", "k2"}
Platforms == {"chatgpt", "claude"}
Texts == {"P", "Q"}
Conns == {"w1", "w2"}
EnvIds == {"e1", "e2"}

\* JS `v || d` on a number: undefined and 0 are both falsy.
OrInt(v, d) == IF v = NULL \/ v = 0 THEN d ELSE v
\* JS `v || d` on a string or object: undefined is falsy.
OrStr(v, d) == IF v = NullStr THEN d ELSE v

\* JSON.stringify(data.metadata || {})
StringifyMetadata(m) == IF m = NullStr THEN "{}" ELSE m

\* SQL COALESCE(x, 0)
Coalesce0(x) == IF x = NULL THEN 0 ELSE x

\* crypto.createHash('sha256').update(text).digest('hex'), on the texts of
\* the model: a fixed digest per text, distinct texts having distinct digests.
Sha256Hex(text) ==
    CASE text = "P" -> "5c62e091"
      [] text = "Q" -> "4ae81572"
      [] OTHER -> "e3b0c442"

VARIABLES
    conversations,     \* table conversations: id -> row
    messages,          \* table messages, in rowid (insertion) order
    api_captures,      \* table api_captures, in rowid order
    system_prompts,    \* table system_prompts, in rowid order
    streaming_chunks,  \* table streaming_chunks, in rowid order
    settings,          \* table settings: key -> value
    clients,           \* WebSocketServer.clients
    readyState,        \* ws.readyState of each connection
    sent,              \* frames written to each connection since its last envelope
    stack,             \* the callback being run: <<>> or <<frame>>
    lastCall,          \* the last store call made: method and argument
    lastError,         \* what that call threw, NoError if it returned
    calls,             \* store calls or envelopes so far (bounded)
    pristine,          \* history: conversations inserted with zero aggregates
                       \*   and written since by insertMessage only
    observed,          \* history: per prompt text, the successful upserts
    ws,                \* host: this.ws, "null" or the socket's readyState
    awaited,           \* host: this.ws is the socket whose 'open' start() awaits
    reconnectAttempts, \* host: this.reconnectAttempts
    timer,             \* host: the setTimeout of the close handler is pending
    messageQueue,      \* host: this.messageQueue
    pc,                \* host: where start() is
    messageLength,     \* host: `length` of readMessage
    stdin,             \* host: bytes buffered in process.stdin
    pipe,              \* bytes Chrome has written that have not arrived yet
    writes,            \* host: process.stdout.write calls of the last
                       \*   sendMessageToChrome
    frames,            \* history: the frames Chrome writes in this run
    produced,          \* history: arguments of sendMessageToDesktopApp, in order
    wire,              \* history: the ws.send calls, in order
    failed,            \* history: reconnect attempts failed since the last 'open'
    received,          \* history: the data of the socket's 'message' events
    sockets,           \* history: WebSocket objects created and not yet closed
    ended,             \* process.stdin has ended: Chrome closed the pipe
    isTracking,        \* extension: StateManager.isTracking
    isConnected,       \* extension: StateManager.isConnected
    local,             \* extension: the chrome.storage.local.set calls that
                       \*   store captured data, in order
    port,              \* extension: messages posted on nativePort that the
                       \*   desktop app has not received yet
    stdout             \* history: the process.stdout.write calls, in order

db == <<conversations, messages, api_captures, system_prompts, streaming_chunks, settings>>
HostVars == <<ws, awaited, reconnectAttempts, timer, messageQueue, pc, messageLength,
              stdin, pipe, writes, frames, produced, wire, failed, received, stdout,
              sockets, ended>>
ExtensionVars == <<isTracking, isConnected, local, port>>
vars == <<conversations, messages, api_captures, system_prompts, streaming_chunks,
          settings, clients, readyState, sent, stack, lastCall, lastError, calls,
          pristine, observed, HostVars, ExtensionVars>>
history == <<pristine, observed>>

\* The tracking flag of a platform in the settings table.
TrackKey(platform) == IF platform = "chatgpt" THEN "track_chatgpt" ELSE "track_claude"

\* The rows the schema inserts: every platform is tracked.
DefaultSettings == [k \in {TrackKey(p) : p \in Platforms} |-> "1"]

\* The flags an installation may have: each platform tracked or not.
Configurations == [{TrackKey(p) : p \in Platforms} -> {"0", "1"}]

NoError == "ok"
NotNullError == "NOT NULL constraint failed"
UniqueError == "UNIQUE constraint failed"
ForeignKeyError == "FOREIGN KEY constraint failed"
TypeError == "TypeError"

\* A store call: the method and its argument.
Stmt(op, data) == [op |-> op, data |-> data]
NoData == [type |-> "none"]
NoCall == Stmt("none", NoData)
NotObserved == [count |-> 0, platform |-> NullStr, first |-> NULL, last |-> NULL]

\* --------------------------------------------------------------- helpers
RECURSIVE SumTokens(_)
SumTokens(s) ==
    IF s = <<>> THEN 0 ELSE Coalesce0(Head(s).tokens_total) + SumTokens(Tail(s))

MessagesOf(cid) == SelectSeq(messages, LAMBDA m : m.conversation_id = cid)
MessageIds == {messages[i].id : i \in 1..Len(messages)}
CaptureIds == {api_captures[i].id : i \in 1..Len(api_captures)}
ChunkRowIds == {streaming_chunks[i].id : i \in 1..Len(streaming_chunks)}
PromptHashes == {system_prompts[i].prompt_hash : i \in 1..Len(system_prompts)}


\* ------------------------------------------------ store: conversations
\* The VALUES list bound by upsertConversation (the `excluded` row).
ConversationRow(data) ==
    [platform |-> data.platform,
     started_at |-> data.started_at,
     last_activity |-> data.last_activity,
     title |-> OrStr(data.title, NullStr),
     message_count |-> OrInt(data.message_count, 0),
     total_tokens |-> OrInt(data.total_tokens, 0),
     metadata |-> StringifyMetadata(data.metadata)]

\* NOT NULL columns of conversations; checked before the conflict clause.
UpsertConversationError(data) ==
    IF data.platform = NullStr \/ data.started_at = NULL \/ data.last_activity = NULL
    THEN NotNullError ELSE NoError

\* Variant: the conflict clause also takes started_at from the new row.
OnConflictUpdateConversationStartedAt(old, excluded) ==
    [old EXCEPT !.started_at = excluded.started_at,
                !.last_activity = excluded.last_activity,
                !.message_count = excluded.message_count,
                !.total_tokens = excluded.total_tokens,
                !.metadata = excluded.metadata]

\* ON CONFLICT(id) DO UPDATE SET ...
OnConflictUpdateConversation(old, excluded) ==
    [old EXCEPT !.last_activity = excluded.last_activity,
                !.message_count = excluded.message_count,
                !.total_tokens = excluded.total_tokens,
                !.metadata = excluded.metadata]

UpsertedConversations(data) ==
    [i \in DOMAIN conversations \cup {data.id} |->
        IF i # data.id THEN conversations[i]
        ELSE IF i \in DOMAIN conversations
             THEN OnConflictUpdateConversation(conversations[i], ConversationRow(data))
             ELSE ConversationRow(data)]

upsertConversation(data) ==
    LET err == UpsertConversationError(data) IN
    /\ lastCall' = Stmt("upsertConversation", data)
    /\ lastError' = err
    /\ conversations' = IF err = NoError THEN UpsertedConversations(data) ELSE conversations
    /\ pristine' = IF err # NoError THEN pristine
                   ELSE IF /\ data.id \notin DOMAIN conversations
                           /\ ConversationRow(data).message_count = 0
                           /\ ConversationRow(data).total_tokens = 0
                        THEN pristine \cup {data.id}
                        ELSE pristine \ {data.id}
    /\ UNCHANGED <<messages, api_captures, system_prompts, streaming_chunks, settings,
                   observed>>

\* ------------------------------------------------------ store: messages
MessageRow(data) ==
    [id |-> data.id,
     conversation_id |-> data.conversation_id,
     timestamp |-> data.timestamp,
     role |-> data.role,
     visible_content |-> data.content,
     message_position |-> OrInt(data.message_position, NULL),
     tokens_total |-> OrInt(data.tokens_total, NULL)]

\* Variant: the foreign key on conversation_id is not enforced.
InsertMessageErrorNoForeignKey(data) ==
    IF \/ data.conversation_id = NullStr \/ data.timestamp = NULL
       \/ data.role = NullStr \/ data.content = NullStr
    THEN NotNullError
    ELSE IF data.id \in MessageIds THEN UniqueError
    ELSE NoError

\* Variant: INSERT OR REPLACE semantics without the primary key check; a
\* second row with the id is stored.
InsertMessageErrorNoPrimaryKey(data) ==
    IF \/ data.conversation_id = NullStr \/ data.timestamp = NULL
       \/ data.role = NullStr \/ data.content = NullStr
    THEN NotNullError
    ELSE IF data.conversation_id \notin DOMAIN conversations THEN ForeignKeyError
    ELSE NoError

\* NOT NULL columns, then the primary key, then the foreign key.
InsertMessageError(data) ==
    IF \/ data.conversation_id = NullStr \/ data.timestamp = NULL
       \/ data.role = NullStr \/ data.content = NullStr
    THEN NotNullError
    ELSE IF data.id \in MessageIds THEN UniqueError
    ELSE IF data.conversation_id \notin DOMAIN conversations THEN ForeignKeyError
    ELSE NoError

\* Variant: the trigger adds NEW.tokens_total without COALESCE, so a NULL
\* makes the sum NULL.
update_conversation_stats_no_coalesce(convs, new) ==
    [i \in DOMAIN convs |->
        IF i = new.conversation_id
        THEN [convs[i] EXCEPT !.message_count = @ + 1,
                              !.total_tokens = IF new.tokens_total = NULL THEN NULL
                                               ELSE @ + new.tokens_total,
                              !.last_activity = new.timestamp]
        ELSE convs[i]]

\* Variant: the trigger is missing.
update_conversation_stats_missing(convs, new) == convs

\* Trigger update_conversation_stats, AFTER INSERT ON messages.
update_conversation_stats(convs, new) ==
    [i \in DOMAIN convs |->
        IF i = new.conversation_id
        THEN [convs[i] EXCEPT !.message_count = @ + 1,
                              !.total_tokens = @ + Coalesce0(new.tokens_total),
                              !.last_activity = new.timestamp]
        ELSE convs[i]]

insertMessage(data) ==
    LET err == InsertMessageError(data) IN
    /\ lastCall' = Stmt("insertMessage", data)
    /\ lastError' = err
    /\ IF err = NoError
       THEN /\ messages' = Append(messages, MessageRow(data))
            /\ conversations' = update_conversation_stats(conversations, MessageRow(data))
       ELSE UNCHANGED <<messages, conversations>>
    /\ UNCHANGED <<api_captures, system_prompts, streaming_chunks, settings, history>>

\* -------------------------------------------------- store: api_captures
ApiCaptureRow(data) ==
    [id |-> data.id,
     message_id |-> data.message_id,
     timestamp |-> data.timestamp,
     request_url |-> OrStr(data.request_url, NullStr),
     platform |-> OrStr(data.platform, NullStr)]

\* Variant: the foreign key on message_id is not enforced.
InsertApiCaptureErrorNoForeignKey(data) ==
    IF \/ data.message_id = NullStr \/ data.timestamp = NULL
       \/ data.request_url = NullStr
    THEN NotNullError
    ELSE IF data.id \in CaptureIds THEN UniqueError
    ELSE NoError

InsertApiCaptureError(data) ==
    IF \/ data.message_id = NullStr \/ data.timestamp = NULL
       \/ data.request_url = NullStr
    THEN NotNullError
    ELSE IF data.id \in CaptureIds THEN UniqueError
    ELSE IF data.message_id \notin MessageIds THEN ForeignKeyError
    ELSE NoError

insertApiCapture(data) ==
    LET err == InsertApiCaptureError(data) IN
    /\ lastCall' = Stmt("insertApiCapture", data)
    /\ lastError' = err
    /\ api_captures' = IF err = NoError THEN Append(api_captures, ApiCaptureRow(data))
                       ELSE api_captures
    /\ UNCHANGED <<conversations, messages, system_prompts, streaming_chunks, settings,
                   history>>

\* ------------------------------------------------ store: system_prompts
\* data.id || crypto.randomUUID(): no caller passes an id, the row gets a
\* fresh one, written here as the row's ordinal.
SystemPromptRow(data, now) ==
    [id |-> Len(system_prompts) + 1,
     platform |-> data.platform,
     prompt_text |-> data.prompt_text,
     prompt_hash |-> Sha256Hex(data.prompt_text),
     first_seen |-> OrInt(data.first_seen, now),
     last_seen |-> OrInt(data.last_seen, now),
     occurrence_count |-> 1]

\* hash.update(undefined) throws before the statement is prepared.
UpsertSystemPromptError(data) ==
    IF data.prompt_text = NullStr THEN TypeError
    ELSE IF data.platform = NullStr THEN NotNullError
    ELSE NoError

\* Variant: the conflict clause sets last_seen only.
OnConflictUpdatePromptNoCount(old, excluded) ==
    [old EXCEPT !.last_seen = excluded.last_seen]

\* Variant: the conflict clause also takes first_seen from the new row.
OnConflictUpdatePromptFirstSeen(old, excluded) ==
    [old EXCEPT !.first_seen = excluded.first_seen,
                !.last_seen = excluded.last_seen,
                !.occurrence_count = @ + 1]

\* Variant: the conflict clause also takes the platform from the new row.
OnConflictUpdatePromptPlatform(old, excluded) ==
    [old EXCEPT !.platform = excluded.platform,
                !.last_seen = excluded.last_seen,
                !.occurrence_count = @ + 1]

\* ON CONFLICT(prompt_hash) DO UPDATE SET ...
OnConflictUpdatePrompt(old, excluded) ==
    [old EXCEPT !.last_seen = excluded.last_seen,
                !.occurrence_count = @ + 1]

\* Trigger update_system_prompt_occurrence, AFTER INSERT ON system_prompts.
update_system_prompt_occurrence(rows, new) ==
    [i \in 1..Len(rows) |->
        IF rows[i].prompt_hash = new.prompt_hash /\ rows[i].id # new.id
        THEN [rows[i] EXCEPT !.occurrence_count = @ + 1,
                             !.last_seen = new.last_seen]
        ELSE rows[i]]

UpsertedSystemPrompts(data, now) ==
    LET excluded == SystemPromptRow(data, now) IN
    IF excluded.prompt_hash \in PromptHashes
    THEN [i \in 1..Len(system_prompts) |->
            IF system_prompts[i].prompt_hash = excluded.prompt_hash
            THEN OnConflictUpdatePrompt(system_prompts[i], excluded)
            ELSE system_prompts[i]]
    ELSE update_system_prompt_occurrence(Append(system_prompts, excluded), excluded)

upsertSystemPrompt(data, now) ==
    LET err == UpsertSystemPromptError(data) IN
    /\ lastCall' = Stmt("upsertSystemPrompt", data)
    /\ lastError' = err
    /\ system_prompts' = IF err = NoError THEN UpsertedSystemPrompts(data, now)
                         ELSE system_prompts
    /\ observed' = IF err # NoError THEN observed
                   ELSE [observed EXCEPT ![data.prompt_text] =
                           [count |-> @.count + 1,
                            platform |-> IF @.count = 0 THEN data.platform ELSE @.platform,
                            first |-> IF @.count = 0 THEN OrInt(data.first_seen, now)
                                      ELSE @.first,
                            last |-> OrInt(data.last_seen, now)]]
    /\ UNCHANGED <<conversations, messages, api_captures, streaming_chunks, settings,
                   pristine>>

\* ---------------------------------------------- store: streaming_chunks
StreamingChunkRow(data) ==
    [id |-> data.id,
     message_id |-> data.message_id,
     chunk_index |-> data.chunk_index,
     timestamp |-> data.timestamp]

InsertStreamingChunkError(data) ==
    IF data.message_id = NullStr \/ data.chunk_index = NULL \/ data.timestamp = NULL
    THEN NotNullError
    ELSE IF data.id \in ChunkRowIds THEN UniqueError
    ELSE IF data.message_id \notin MessageIds THEN ForeignKeyError
    ELSE NoError

insertStreamingChunk(data) ==
    LET err == InsertStreamingChunkError(data) IN
    /\ lastCall' = Stmt("insertStreamingChunk", data)
    /\ lastError' = err
    /\ streaming_chunks' = IF err = NoError
                           THEN Append(streaming_chunks, StreamingChunkRow(data))
                           ELSE streaming_chunks
    /\ UNCHANGED <<conversations, messages, api_captures, system_prompts, settings,
                   history>>

\* ------------------------------------------------------- store: reading
\* Variant: a row is put in front of the rows that have its timestamp.
InsertByTimestampBeforeTies(sorted, row) ==
    LET k == Cardinality({i \in 1..Len(sorted) : sorted[i].timestamp < row.timestamp})
    IN  SubSeq(sorted, 1, k) \o <<row>> \o SubSeq(sorted, k + 1, Len(sorted))

\* ORDER BY timestamp ASC, one row at a time: the rows reach the sorter in
\* rowid order (the order of idx_messages_conversation within one
\* conversation_id) and SQLite's sorter keeps rows of equal key in the order
\* of arrival; a scan of idx_messages_timestamp gives the same order.
InsertByTimestamp(sorted, row) ==
    LET k == Cardinality({i \in 1..Len(sorted) : sorted[i].timestamp <= row.timestamp})
    IN  SubSeq(sorted, 1, k) \o <<row>> \o SubSeq(sorted, k + 1, Len(sorted))

RECURSIVE OrderByTimestamp(_)
OrderByTimestamp(rows) ==
    IF rows = << >> THEN << >>
    ELSE InsertByTimestamp(OrderByTimestamp(SubSeq(rows, 1, Len(rows) - 1)),
                           rows[Len(rows)])

\* getMessages(conversationId):
\* SELECT * FROM messages WHERE conversation_id = ? ORDER BY timestamp ASC
getMessages(conversationId) ==
    OrderByTimestamp(SelectSeq(messages, LAMBDA m : m.conversation_id = conversationId))

\* text LIKE '%' || term || '%' on the texts of the model, the title T and
\* the content hello: LIKE ignores the case of ASCII letters and matches a
\* text that has the term as a substring; NULL LIKE anything is not true.
Like(text, term) ==
    LET lower(t) == IF t = "T" THEN "t" ELSE t
        substrings(t) == IF t = "hello" THEN {"hello", "ell"} ELSE {t}
    IN  text # NullStr /\ lower(term) \in substrings(lower(text))

\* Search terms: a title in either case, a part of a content, and a word
\* that occurs nowhere.
SearchTerms == {"T", "t", "ell", "Python"}
SearchLimit == 100

\* FROM conversations c JOIN messages m ON m.conversation_id = c.id
\* WHERE m.visible_content LIKE ? OR c.title LIKE ?, DISTINCT c.*
SearchMatches(term) ==
    {c \in DOMAIN conversations :
        \E i \in 1..Len(messages) :
            /\ messages[i].conversation_id = c
            /\ \/ Like(messages[i].visible_content, term)
               \/ Like(conversations[c].title, term)}

\* searchConversations(searchTerm): the ids of the rows it may return.  The
\* query orders by last_activity DESC only, so rows of equal last_activity
\* come in either order; LIMIT cuts the ordered list.
searchConversations(searchTerm) ==
    LET found == SearchMatches(searchTerm)
        n == Cardinality(found)
        ordered == {r \in [1..n -> found] :
                       /\ \A k, l \in 1..n : k # l => r[k] # r[l]
                       /\ \A k, l \in 1..n :
                             k < l => conversations[r[k]].last_activity
                                        >= conversations[r[l]].last_activity}
    IN  {SubSeq(r, 1, IF n < SearchLimit THEN n ELSE SearchLimit) : r \in ordered}

\* ORDER BY occurrence_count DESC, one row at a time, rows of equal count in
\* the order of arrival (rowid order).
InsertByOccurrenceCount(sorted, row) ==
    LET k == Cardinality({i \in 1..Len(sorted) :
                             sorted[i].occurrence_count >= row.occurrence_count})
    IN  SubSeq(sorted, 1, k) \o <<row>> \o SubSeq(sorted, k + 1, Len(sorted))

RECURSIVE OrderByOccurrenceCount(_)
OrderByOccurrenceCount(rows) ==
    IF rows = << >> THEN << >>
    ELSE InsertByOccurrenceCount(OrderByOccurrenceCount(SubSeq(rows, 1, Len(rows) - 1)),
                                 rows[Len(rows)])

\* getSystemPrompts(platform): the rows of the platform, or every row if no
\* platform is given.
getSystemPrompts(platform) ==
    OrderByOccurrenceCount(
        SelectSeq(system_prompts,
                  LAMBDA r : platform = NullStr \/ r.platform = platform))


\* ------------------------------------------------------- server: sending
\* WebSocketServer.send: writes only to an open socket.
send(out, c, message) ==
    IF readyState[c] = "OPEN" THEN [out EXCEPT ![c] = Append(@, message)] ELSE out

\* Variant: the catch of handleMessage only logs; nothing is sent.
sendErrorSwallowed(out, c, error) == out

\* WebSocketServer.sendError
sendError(out, c, error) == send(out, c, [type |-> "error", error |-> error])

Ack(id) == [type |-> "ack", messageId |-> id]
Pong == [type |-> "pong"]
Welcome == [type |-> "connection", status |-> "connected"]

\* ------------------------------------------------------ server: handlers
\* Each handler is the list of calls it makes, in order; `now` is the reading
\* of Date.now() and `uuid` the value of crypto.randomUUID() in that handler.
handleConversation(data, now, uuid) ==
    << Stmt("upsertConversation",
            [id |-> OrStr(data.id, uuid),
             platform |-> data.platform,
             started_at |-> OrInt(data.started_at, now),
             last_activity |-> OrInt(data.last_activity, now),
             title |-> data.title,
             message_count |-> OrInt(data.message_count, 0),
             total_tokens |-> OrInt(data.total_tokens, 0),
             metadata |-> data.metadata]) >>

handleUserMessage(data, now, uuid) ==
    << Stmt("insertMessage",
            [id |-> OrStr(data.id, uuid),
             conversation_id |-> data.conversation_id,
             timestamp |-> OrInt(data.timestamp, now),
             role |-> data.role,
             content |-> data.content,
             message_position |-> data.message_position,
             tokens_total |-> data.tokens_total]),
       Stmt("upsertConversation",
            [id |-> data.conversation_id,
             platform |-> data.platform,
             started_at |-> NULL,
             last_activity |-> now,
             title |-> NullStr,
             message_count |-> OrInt(data.message_position, 0) + 1,
             total_tokens |-> NULL,
             metadata |-> NullStr]) >>

\* Variant: a text that occurs more than once in the list is upserted once.
handleApiCaptureDistinctPrompts(data, now, uuid) ==
    LET first == SelectSeq([i \in 1..Len(data.system_prompts) |-> i],
                           LAMBDA i : \A j \in 1..(i - 1) :
                                         data.system_prompts[j] # data.system_prompts[i])
    IN
    << Stmt("insertApiCapture",
            [id |-> OrStr(data.id, uuid),
             message_id |-> data.message_id,
             timestamp |-> OrInt(data.timestamp, now),
             request_url |-> data.request_url,
             platform |-> NullStr]) >>
    \o [k \in 1..Len(first) |->
          Stmt("upsertSystemPrompt",
               [platform |-> OrStr(data.platform, "unknown"),
                prompt_text |-> data.system_prompts[first[k]],
                first_seen |-> now,
                last_seen |-> now])]

handleApiCapture(data, now, uuid) ==
    << Stmt("insertApiCapture",
            [id |-> OrStr(data.id, uuid),
             message_id |-> data.message_id,
             timestamp |-> OrInt(data.timestamp, now),
             request_url |-> data.request_url,
             platform |-> NullStr]) >>
    \o [i \in 1..Len(data.system_prompts) |->
          Stmt("upsertSystemPrompt",
               [platform |-> OrStr(data.platform, "unknown"),
                prompt_text |-> data.system_prompts[i],
                first_seen |-> now,
                last_seen |-> now])]

handleSystemPrompt(data, now, uuid) ==
    << Stmt("upsertSystemPrompt",
            [platform |-> data.platform,
             prompt_text |-> data.prompt_text,
             first_seen |-> OrInt(data.first_seen, now),
             last_seen |-> OrInt(data.last_seen, now)]) >>

handleStreamingChunk(data, now, uuid) ==
    << Stmt("insertStreamingChunk",
            [id |-> OrStr(data.id, uuid),
             message_id |-> data.message_id,
             chunk_index |-> data.chunk_index,
             timestamp |-> OrInt(data.timestamp, now)]) >>

\* Variant: the switch has no default case of its own; an unknown type runs
\* the conversation handler on the data of the envelope, which has none of
\* its fields.
DispatchUnknownAsConversation(message, now, uuid) ==
    CASE message.type = "conversation" -> handleConversation(message.data, now, uuid)
      [] message.type = "message" -> handleUserMessage(message.data, now, uuid)
      [] message.type = "api_capture" -> handleApiCapture(message.data, now, uuid)
      [] message.type = "system_prompt" -> handleSystemPrompt(message.data, now, uuid)
      [] message.type = "streaming_chunk" -> handleStreamingChunk(message.data, now, uuid)
      [] message.type = "ping" -> << Stmt("pong", [type |-> "ping"]) >>
      [] OTHER -> handleConversation(
                      [id |-> NullStr, platform |-> NullStr, started_at |-> NULL,
                       last_activity |-> NULL, title |-> NullStr, message_count |-> NULL,
                       total_tokens |-> NULL, metadata |-> NullStr], now, uuid)

\* The switch of handleMessage.
Dispatch(message, now, uuid) ==
    CASE message.type = "conversation" -> handleConversation(message.data, now, uuid)
      [] message.type = "message" -> handleUserMessage(message.data, now, uuid)
      [] message.type = "api_capture" -> handleApiCapture(message.data, now, uuid)
      [] message.type = "system_prompt" -> handleSystemPrompt(message.data, now, uuid)
      [] message.type = "streaming_chunk" -> handleStreamingChunk(message.data, now, uuid)
      [] message.type = "ping" -> << Stmt("pong", [type |-> "ping"]) >>
      [] OTHER -> << >>


\* ------------------------------------------------------- inputs (bounded)
Conv(i, p, s, l, t, n, k, m) ==
    [id |-> i, platform |-> p, started_at |-> s, last_activity |-> l,
     title |-> t, message_count |-> n, total_tokens |-> k, metadata |-> m]

\* Arguments of direct upsertConversation calls: without aggregates (as the
\* tests set a conversation up), with aggregates and a title, and lacking a
\* NOT NULL column.
ConversationInputs ==
    {Conv(i, p, s, s, NullStr, NULL, NULL, NullStr) :
        i \in ConvIds, p \in Platforms, s \in Times}
    \cup {Conv(i, "chatgpt", 1, l, "T", n, 10, "{a}") :
        i \in ConvIds, l \in Times, n \in {1, 2}}
    \cup {Conv(i, NullStr, 1, 1, NullStr, NULL, NULL, NullStr) : i \in ConvIds}
    \cup {Conv(i, "chatgpt", NULL, 1, NullStr, 1, NULL, NullStr) : i \in ConvIds}

Msg(i, c, ts, r, txt, pos, k) ==
    [id |-> i, conversation_id |-> c, timestamp |-> ts, role |-> r,
     content |-> txt, message_position |-> pos, tokens_total |-> k]

MessageInputs ==
    {Msg(i, c, ts, "user", "hello", NULL, k) :
        i \in MsgIds, c \in ConvIds, ts \in Times, k \in {NULL, 10, 20}}
    \cup {Msg(i, "c1", 1, NullStr, "hello", NULL, 10) : i \in MsgIds}

Cap(i, m, ts, u, p) ==
    [id |-> i, message_id |-> m, timestamp |-> ts, request_url |-> u, platform |-> p]

ApiCaptureInputs ==
    {Cap(i, m, 1, u, "chatgpt") :
        i \in CapIds, m \in MsgIds, u \in {"https://api", NullStr}}

Prompt(p, t, f, l) ==
    [platform |-> p, prompt_text |-> t, first_seen |-> f, last_seen |-> l]

SystemPromptInputs ==
    {Prompt(p, t, f, l) : p \in Platforms, t \in Texts,
                          f \in {1, NULL}, l \in Times \cup {NULL}}
    \cup {Prompt(NullStr, "P", 1, 1), Prompt("chatgpt", NullStr, 1, 1)}

Chunk(i, m, x, ts) ==
    [id |-> i, message_id |-> m, chunk_index |-> x, timestamp |-> ts]

StreamingChunkInputs ==
    {Chunk(i, m, x, 1) : i \in ChunkIds, m \in MsgIds, x \in {0, 1}}
    \cup {Chunk("k1", "m1", NULL, 1)}

\* ------------------------------------------------ native host: the framer
\* Messages are JSON values: an empty object and a one-character string whose
\* character takes two bytes in UTF-8.  `chars` are UTF-16 code units.
EmptyObject == [kind |-> "object", chars |-> << >>]
EAcute == [kind |-> "string", chars |-> <<233>>]
Messages == {EmptyObject, EAcute}

\* JSON.stringify(message): the text, as a sequence of code units.
JSONStringify(message) ==
    IF message.kind = "object" THEN <<123, 125>>
    ELSE <<34>> \o message.chars \o <<34>>

\* Buffer.from(json): the UTF-8 bytes of a string.
RECURSIVE BufferFrom(_)
BufferFrom(str) ==
    IF str = << >> THEN << >>
    ELSE LET c == Head(str) IN
         (IF c < 128 THEN <<c>> ELSE <<192 + (c \div 64), 128 + (c % 64)>>)
         \o BufferFrom(Tail(str))

\* buffer.toString(): the string of UTF-8 bytes, U+FFFD for a stray byte.
RECURSIVE BufferToString(_)
BufferToString(bytes) ==
    IF bytes = << >> THEN << >>
    ELSE LET b == Head(bytes) IN
         IF b < 128 THEN <<b>> \o BufferToString(Tail(bytes))
         ELSE IF /\ b >= 192 /\ b < 224 /\ Len(bytes) >= 2
                 /\ bytes[2] >= 128 /\ bytes[2] < 192
              THEN <<(b - 192) * 64 + (bytes[2] - 128)>>
                   \o BufferToString(Tail(Tail(bytes)))
              ELSE <<65533>> \o BufferToString(Tail(bytes))

\* What JSON.parse throws; `chars` is the rejected text.
SyntaxError(str) == [kind |-> "SyntaxError", chars |-> str]

\* JSON.parse(text) on the texts of the model: {} and a string literal
\* without escapes parse, anything else throws.
JSONParse(str) ==
    IF str = <<123, 125>> THEN EmptyObject
    ELSE IF /\ Len(str) >= 2 /\ str[1] = 34 /\ str[Len(str)] = 34
            /\ \A i \in 2..(Len(str) - 1) : str[i] \notin {34, 92} /\ str[i] >= 32
         THEN [kind |-> "string", chars |-> SubSeq(str, 2, Len(str) - 1)]
         ELSE SyntaxError(str)

\* Variant: the length prefix is written most significant byte first.
writeUInt32BE(n) ==
    <<(n \div 16777216) % 256, (n \div 65536) % 256, (n \div 256) % 256, n % 256>>

\* header.writeUInt32LE(n, 0)
writeUInt32LE(n) ==
    <<n % 256, (n \div 256) % 256, (n \div 65536) % 256, (n \div 16777216) % 256>>

\* headerBuffer.readUInt32LE(0)
readUInt32LE(b) == b[1] + 256 * b[2] + 65536 * b[3] + 16777216 * b[4]

\* Variant: the prefix counts the characters of the JSON text, not its bytes.
sendMessageToChromeJsonLength(message) ==
    LET json == JSONStringify(message)
    IN  <<writeUInt32LE(Len(json)), BufferFrom(json)>>

\* sendMessageToChrome(message): the two process.stdout.write calls.
sendMessageToChrome(message) ==
    LET json == JSONStringify(message)
        buffer == BufferFrom(json)
    IN  <<writeUInt32LE(Len(buffer)), buffer>>

\* The frame of a message, as bytes: the native messaging protocol is the
\* same in both directions, so the peer writes what sendMessageToChrome
\* writes, the header followed by the payload.
FrameOf(message) ==
    LET w == sendMessageToChrome(message) IN w[1] \o w[2]

\* Frames that carry no message: the text EOF behind a prefix of 3, a prefix
\* of 0 with no payload, and a prefix declaring 2^24 bytes.
EofFrame == <<3, 0, 0, 0, 69, 79, 70>>
EmptyFrame == <<0, 0, 0, 0>>
HugeFrame == <<0, 0, 0, 1>>

ChromeFrames == {FrameOf(m) : m \in Messages} \cup {EofFrame, EmptyFrame, HugeFrame}

RECURSIVE Flatten(_)
Flatten(fs) == IF fs = << >> THEN << >> ELSE Head(fs) \o Flatten(Tail(fs))

\* stream.read(n) in paused mode: n bytes if that many are buffered; otherwise
\* null while the stream has not ended, and the bytes that are left (null if
\* none) once it has.  read(0) is always null.
CanRead(n) == n > 0 /\ Len(stdin) >= n

\* The buffer after a read that could not return all the bytes asked for.
AfterShortRead == IF ended THEN << >> ELSE stdin

\* 'EOF' occurs in the text.
IncludesEOF(str) ==
    \E i \in 1..(Len(str) - 2) : str[i] = 69 /\ str[i + 1] = 79 /\ str[i + 2] = 70

\* err.message.includes('EOF') for `Invalid JSON: ${err.message}`: the V8 of
\* current Node.js releases quotes the rejected text in the message of
\* JSON.parse (Unexpected token 'E', "EOF" is not valid JSON), older ones do
\* not, so both outcomes exist for a text holding EOF.
MessageIncludesEOF(err) == IF IncludesEOF(err.chars) THEN BOOLEAN ELSE {FALSE}

\* -------------------------------------------- native host: the bridge client
MaxFrames == 2              \* frames that pass through the host in one run:
                            \*   those Chrome writes and those the server sends
maxReconnectAttempts == 2   \* config.maxReconnectAttempts, as the tests set it

IngestVars == <<db, clients, readyState, sent, stack, lastCall, lastError, calls, history>>

FrameSeqs ==
    UNION {[1..n -> ChromeFrames] : n \in 0..MaxFrames}

\* The StateManager after its constructor, and after loadState() of a fresh
\* installation.
ExtensionConstructed ==
    /\ isTracking = TRUE
    /\ isConnected = FALSE
    /\ local = << >>
    /\ port = << >>

\* After the constructor; fs are the frames Chrome is going to write.
HostConstructed(fs) ==
    /\ ws = "null"
    /\ awaited = FALSE
    /\ reconnectAttempts = 0
    /\ timer = FALSE
    /\ messageQueue = << >>
    /\ pc = "created"
    /\ messageLength = 0
    /\ stdin = << >>
    /\ pipe = Flatten(fs)
    /\ writes = << >>
    /\ frames = fs
    /\ produced = << >>
    /\ wire = << >>
    /\ failed = 0
    /\ received = << >>
    /\ stdout = << >>
    /\ sockets = 0
    /\ ended = FALSE

\* start() is inside readHeader or readChunk: no other callback runs.
HostRunning == pc \in {"readHeader", "readChunk"}

\* A ws.send call, as `wire` records it: the message, and whether it came
\* out of the queue.
Transmit(message, queued) == [message |-> message, queued |-> queued]

\* Variant: the queue is emptied from its tail (pop instead of shift).
RECURSIVE DrainLastFirst(_)
DrainLastFirst(q) ==
    IF q = << >> THEN << >>
    ELSE <<Transmit(q[Len(q)], TRUE)>> \o DrainLastFirst(SubSeq(q, 1, Len(q) - 1))

\* Variant: the loop stops with one message left (length > 1), which the
\* handler then discards with the queue.
RECURSIVE DrainAllButLast(_)
DrainAllButLast(q) ==
    IF Len(q) <= 1 THEN << >>
    ELSE <<Transmit(Head(q), TRUE)>> \o DrainAllButLast(Tail(q))

\* The while loop of the 'open' handler: the ws.send calls it makes.
RECURSIVE Drain(_)
Drain(q) ==
    IF q = << >> THEN << >> ELSE <<Transmit(Head(q), TRUE)>> \o Drain(Tail(q))

\* Variant: a message is sent whenever a socket object exists.
ConnectedAnySocket == ws # "null"

\* this.ws && this.ws.readyState === WebSocket.OPEN
Connected == ws # "null" /\ ws = "OPEN"

\* sendMessageToDesktopApp(message)
sendMessageToDesktopApp(message) ==
    /\ produced' = Append(produced, message)
    /\ IF Connected
       THEN /\ wire' = Append(wire, Transmit(message, FALSE))
            /\ UNCHANGED messageQueue
       ELSE /\ messageQueue' = Append(messageQueue, message)
            /\ UNCHANGED wire

\* start() up to its first await: connectToDesktopApp() either creates the
\* socket and leaves start() waiting for its 'open', or `new WebSocket`
\* throws (an unusable wsUrl) and start() goes on to the read loop.
start ==
    /\ pc = "created"
    /\ \/ /\ ws' = "CONNECTING"
          /\ sockets' = sockets + 1
          /\ awaited' = TRUE
          /\ pc' = "awaitConnect"
       \/ /\ pc' = "readHeader"
          /\ UNCHANGED <<ws, sockets, awaited>>
    /\ UNCHANGED <<reconnectAttempts, timer, messageQueue, messageLength, stdin, pipe,
                   writes, frames, produced, wire, failed,
                   received, stdout, ended, IngestVars, ExtensionVars>>

\* ws.on('open'): the counter is reset, the queue is sent, and resolve()
\* lets start() go on if this is the socket it awaits.
WsOnOpen ==
    /\ ~HostRunning
    /\ ws = "CONNECTING"
    /\ ws' = "OPEN"
    /\ reconnectAttempts' = 0
    /\ wire' = wire \o Drain(messageQueue)
    /\ messageQueue' = << >>
    /\ pc' = IF awaited /\ pc = "awaitConnect" THEN "readHeader" ELSE pc
    /\ failed' = 0
    /\ UNCHANGED <<awaited, timer, messageLength, stdin, pipe, writes, frames,
                   produced,
                   received, stdout, ended, sockets, IngestVars, ExtensionVars>>

\* The peer's close frame arrives: the socket is CLOSING until it is closed.
WsClosing ==
    /\ ~HostRunning
    /\ ws = "OPEN"
    /\ ws' = "CLOSING"
    /\ UNCHANGED <<awaited, reconnectAttempts, timer, messageQueue, pc, messageLength,
                   stdin, pipe, writes, frames, produced, wire, failed,
                   received, stdout, ended, sockets, IngestVars, ExtensionVars>>

\* Variant: the close handler only logs and clears this.ws.
MayReconnectNever == FALSE

\* Variant: the close handler compares with <=.
MayReconnectOneMore == reconnectAttempts <= maxReconnectAttempts

\* this.reconnectAttempts < this.maxReconnectAttempts
MayReconnect == reconnectAttempts < maxReconnectAttempts

\* ws.on('close'), also after a connection attempt that failed ('error' only
\* logs): this.ws = null, and the timer is armed if attempts are left.
WsOnClose ==
    /\ ~HostRunning
    /\ ws # "null"
    /\ ws' = "null"
    /\ awaited' = FALSE
    /\ IF MayReconnect
       THEN reconnectAttempts' = reconnectAttempts + 1 /\ timer' = TRUE
       ELSE UNCHANGED <<reconnectAttempts, timer>>
    /\ failed' = IF ws = "CONNECTING" /\ ~awaited THEN failed + 1 ELSE failed
    /\ sockets' = sockets - 1
    /\ UNCHANGED <<messageQueue, pc, messageLength, stdin, pipe, writes, frames,
                   produced, wire,
                   received, stdout, ended, IngestVars, ExtensionVars>>

\* Variant: the close handler uses setInterval; the timer stays armed and
\* the next firing replaces a socket that is still connecting or open.
ReconnectTimerRepeats ==
    /\ ~HostRunning
    /\ timer
    /\ ws' = "CONNECTING"
    /\ sockets' = sockets + 1
    /\ UNCHANGED <<timer, awaited, reconnectAttempts, messageQueue, pc, messageLength,
                   stdin, pipe, writes, frames, produced, wire, failed,
                   received, stdout, ended, IngestVars, ExtensionVars>>

\* The setTimeout callback: connectToDesktopApp() again.
ReconnectTimer ==
    /\ ~HostRunning
    /\ timer
    /\ timer' = FALSE
    /\ ws' = "CONNECTING"
    /\ sockets' = sockets + 1
    /\ UNCHANGED <<awaited, reconnectAttempts, messageQueue, pc, messageLength, stdin,
                   pipe, writes, frames, produced, wire, failed,
                   received, stdout, ended, IngestVars, ExtensionVars>>

\* What the desktop app sends: the JSON text of a message; and a text that is
\* no JSON, which the server of this repository never sends.
ServerData == {BufferFrom(JSONStringify(m)) : m \in Messages} \cup {<<69, 79, 70>>}

\* Variant: the handler writes the message to stdout twice.
onMessageTwice(data) ==
    LET message == JSONParse(BufferToString(data)) IN
    IF message.kind = "SyntaxError" THEN << >>
    ELSE sendMessageToChrome(message) \o sendMessageToChrome(message)

\* The body of ws.on('message'): the write calls it makes for `data`.
onMessage(data) ==
    LET message == JSONParse(BufferToString(data)) IN
    IF message.kind = "SyntaxError" THEN << >> ELSE sendMessageToChrome(message)

\* ws.on('message'): a frame from the desktop app is written to stdout, or
\* logged if it is no JSON.
WsOnMessage ==
    /\ ~HostRunning
    /\ ws = "OPEN"
    /\ Len(frames) + Len(received) < MaxFrames
    /\ \E data \in ServerData :
          /\ received' = Append(received, data)
          /\ stdout' = stdout \o onMessage(data)
          /\ writes' = IF onMessage(data) = << >> THEN writes ELSE onMessage(data)
    /\ UNCHANGED <<ws, awaited, reconnectAttempts, timer, messageQueue, pc, messageLength,
                   stdin, pipe, frames, produced, wire, failed, sockets, ended, IngestVars, ExtensionVars>>

\* Bytes arrive on stdin, any number of them; 'readable' runs the listener
\* that a read returning null has registered.
StdinReadable ==
    /\ ~HostRunning
    /\ pipe # << >>
    /\ \E k \in 1..Len(pipe) :
          /\ stdin' = stdin \o SubSeq(pipe, 1, k)
          /\ pipe' = SubSeq(pipe, k + 1, Len(pipe))
    /\ pc' = CASE pc = "waitHeader" -> "readHeader"
               [] pc = "waitChunk" -> "readChunk"
               [] OTHER -> pc
    /\ UNCHANGED <<ws, awaited, reconnectAttempts, timer, messageQueue, messageLength,
                   writes, frames, produced, wire, failed,
                   received, stdout, ended, sockets, IngestVars, ExtensionVars>>

\* The pipe is closed at Chrome's end after its last byte has arrived: the
\* stream emits 'readable' once more, which runs the listener that a read
\* returning null has registered, and no 'readable' after that.  Nothing in
\* the host listens for 'end'.
StdinEnd ==
    /\ ~HostRunning
    /\ pipe = << >>
    /\ ~ended
    /\ ended' = TRUE
    /\ pc' = CASE pc = "waitHeader" -> "readHeader"
               [] pc = "waitChunk" -> "readChunk"
               [] OTHER -> pc
    /\ UNCHANGED <<ws, awaited, reconnectAttempts, timer, messageQueue, messageLength,
                   stdin, pipe, writes, frames, produced, wire, failed,
                   received, stdout, sockets, IngestVars, ExtensionVars>>

\* readHeader: process.stdin.read(4); headerRead is 0 whenever it is called,
\* a read before the end returning all the bytes asked for or null.  A read
\* that returns fewer registers the listener for the next 'readable'.
readHeader ==
    /\ pc = "readHeader"
    /\ IF CanRead(4)
       THEN /\ messageLength' = readUInt32LE(SubSeq(stdin, 1, 4))
            /\ stdin' = SubSeq(stdin, 5, Len(stdin))
            /\ pc' = "readChunk"
       ELSE /\ pc' = "waitHeader"
            /\ stdin' = AfterShortRead
            /\ UNCHANGED messageLength
    /\ UNCHANGED <<ws, awaited, reconnectAttempts, timer, messageQueue, pipe, writes,
                   frames, produced, wire, failed,
                   received, stdout, ended, sockets, IngestVars, ExtensionVars>>

\* The cleanup of start(): if (this.ws) this.ws.close()
cleanup ==
    /\ pc' = "stopped"
    /\ ws' = IF ws # "null" THEN "CLOSING" ELSE ws

\* readChunk and the body of the loop of start(): a payload that parses is
\* passed to sendMessageToDesktopApp; one that does not is logged, unless the
\* error message includes 'EOF', which ends the loop.
readChunk ==
    /\ pc = "readChunk"
    /\ IF ~CanRead(messageLength)
       THEN /\ pc' = "waitChunk"
            /\ stdin' = AfterShortRead
            /\ UNCHANGED <<ws, messageQueue, produced, wire>>
       ELSE LET message == JSONParse(BufferToString(SubSeq(stdin, 1, messageLength))) IN
            /\ stdin' = SubSeq(stdin, messageLength + 1, Len(stdin))
            /\ IF message.kind # "SyntaxError"
               THEN /\ sendMessageToDesktopApp(message)
                    /\ pc' = "readHeader"
                    /\ UNCHANGED ws
               ELSE /\ \E eof \in MessageIncludesEOF(message) :
                          IF eof THEN cleanup ELSE pc' = "readHeader" /\ UNCHANGED ws
                    /\ UNCHANGED <<messageQueue, produced, wire>>
    /\ UNCHANGED <<awaited, reconnectAttempts, timer, messageLength, pipe, writes,
                   frames, failed,
                   received, stdout, ended, sockets, IngestVars, ExtensionVars>>

HostInit ==
    /\ conversations = << >>
    /\ messages = << >>
    /\ api_captures = << >>
    /\ system_prompts = << >>
    /\ streaming_chunks = << >>
    /\ settings = DefaultSettings
    /\ clients = {}
    /\ readyState = [c \in Conns |-> "NONE"]
    /\ sent = [c \in Conns |-> << >>]
    /\ stack = << >>
    /\ lastCall = NoCall
    /\ lastError = NoError
    /\ calls = 0
    /\ pristine = {}
    /\ observed = [t \in Texts |-> NotObserved]
    /\ \E fs \in FrameSeqs : HostConstructed(fs)
    /\ ExtensionConstructed

HostNext ==
    \/ start
    \/ WsOnOpen
    \/ WsClosing
    \/ WsOnClose
    \/ ReconnectTimer
    \/ WsOnMessage
    \/ StdinReadable
    \/ StdinEnd
    \/ readHeader
    \/ readChunk

HostSpec == HostInit /\ [][HostNext]_vars

\* The event loop runs every callback that is due: start() is called, bytes
\* written to the pipe arrive, the reads of the loop are made, an armed timer
\* fires, and a socket that is connecting or closing ends in 'open' or
\* 'close'.  An open socket may stay open for ever.
HostFairSpec ==
    /\ HostSpec
    /\ WF_vars(start)
    /\ WF_vars(StdinReadable)
    /\ WF_vars(readHeader)
    /\ WF_vars(readChunk)
    /\ WF_vars(ReconnectTimer)
    /\ WF_vars(ws # "OPEN" /\ (WsOnOpen \/ WsOnClose))

ServerVars == <<clients, readyState, sent, stack>>

\* ------------------------------------------------ direct calls on the store
\* A caller in the main process (the tests, the IPC layer) calls one store
\* method; the call is synchronous and runs only between callbacks.
CallUpsertConversation ==
    /\ stack = << >> /\ calls < MaxCalls
    /\ \E d \in ConversationInputs : upsertConversation(d)
    /\ calls' = calls + 1
    /\ UNCHANGED <<ServerVars, HostVars, ExtensionVars>>

CallInsertMessage ==
    /\ stack = << >> /\ calls < MaxCalls
    /\ \E d \in MessageInputs : insertMessage(d)
    /\ calls' = calls + 1
    /\ UNCHANGED <<ServerVars, HostVars, ExtensionVars>>

CallInsertApiCapture ==
    /\ stack = << >> /\ calls < MaxCalls
    /\ \E d \in ApiCaptureInputs : insertApiCapture(d)
    /\ calls' = calls + 1
    /\ UNCHANGED <<ServerVars, HostVars, ExtensionVars>>

CallUpsertSystemPrompt ==
    /\ stack = << >> /\ calls < MaxCalls
    /\ \E d \in SystemPromptInputs, now \in Times : upsertSystemPrompt(d, now)
    /\ calls' = calls + 1
    /\ UNCHANGED <<ServerVars, HostVars, ExtensionVars>>

CallInsertStreamingChunk ==
    /\ stack = << >> /\ calls < MaxCalls
    /\ \E d \in StreamingChunkInputs : insertStreamingChunk(d)
    /\ calls' = calls + 1
    /\ UNCHANGED <<ServerVars, HostVars, ExtensionVars>>

\* The database after init() on a new file, no connection accepted yet; the
\* tracking flags are as the user has set them.
Init ==
    /\ conversations = << >>
    /\ messages = << >>
    /\ api_captures = << >>
    /\ system_prompts = << >>
    /\ streaming_chunks = << >>
    /\ settings \in Configurations
    /\ clients = {}
    /\ readyState = [c \in Conns |-> "NONE"]
    /\ sent = [c \in Conns |-> << >>]
    /\ stack = << >>
    /\ lastCall = NoCall
    /\ lastError = NoError
    /\ calls = 0
    /\ pristine = {}
    /\ observed = [t \in Texts |-> NotObserved]
    /\ HostConstructed(<< >>)
    /\ ExtensionConstructed

Next ==
    \/ CallUpsertConversation
    \/ CallInsertMessage
    \/ CallInsertApiCapture
    \/ CallUpsertSystemPrompt
    \/ CallInsertStreamingChunk

Spec == Init /\ [][Next]_vars


\* ------------------------------------------------------ server: envelopes
Envelope(t, i, d) == [type |-> t, id |-> i, data |-> d]

\* Payloads a producer puts in each kind of envelope.  An absent field is
\* NULL / NullStr; the handlers fill in Date.now() and randomUUID().
ConversationPayloads ==
    {Conv("c1", "chatgpt", NULL, NULL, NullStr, n, NULL, NullStr) : n \in {NULL, 1}}
    \cup {Conv(NullStr, NullStr, NULL, NULL, NullStr, NULL, NULL, NullStr)}

MsgPayload(i, c, pos, k) ==
    [id |-> i, conversation_id |-> c, timestamp |-> NULL, role |-> "user",
     content |-> "hello", message_position |-> pos, tokens_total |-> k,
     platform |-> "chatgpt"]

MessagePayloads ==
    {MsgPayload("m1", "c1", NULL, 10), MsgPayload(NullStr, "c1", 1, NULL),
     MsgPayload("m2", "c2", NULL, 10)}

CapPayload(m, u, sp) ==
    [id |-> "a1", message_id |-> m, timestamp |-> NULL, request_url |-> u,
     platform |-> NullStr, system_prompts |-> sp]

ApiCapturePayloads ==
    {CapPayload("m1", "https://api", <<"P", "P">>),
     CapPayload("m1", "https://api", << >>),
     CapPayload("m2", "https://api", <<"P", "Q">>),
     CapPayload("m1", NullStr, <<"P">>)}

SystemPromptPayloads ==
    {Prompt("chatgpt", "P", NULL, NULL), Prompt("chatgpt", NullStr, NULL, NULL),
     Prompt(NullStr, "Q", NULL, NULL)}

StreamingChunkPayloads ==
    {Chunk("k1", "m1", 0, NULL), Chunk(NullStr, "m1", 1, NULL),
     Chunk("k1", "m2", NULL, NULL)}

\* Parsed envelopes: the six known types, a type the server does not know
\* (what the extension's background worker emits) and one without an id.
Envelopes ==
    {Envelope("conversation", i, d) : i \in EnvIds, d \in ConversationPayloads}
    \cup {Envelope("message", i, d) : i \in EnvIds, d \in MessagePayloads}
    \cup {Envelope("api_capture", i, d) : i \in EnvIds, d \in ApiCapturePayloads}
    \cup {Envelope("system_prompt", i, d) : i \in EnvIds, d \in SystemPromptPayloads}
    \cup {Envelope("streaming_chunk", i, d) : i \in EnvIds, d \in StreamingChunkPayloads}
    \cup {Envelope("ping", i, NoData) : i \in EnvIds}
    \cup {Envelope("MESSAGE_STORED", NullStr, NoData)}

KnownTypes ==
    {"conversation", "message", "api_capture", "system_prompt", "streaming_chunk", "ping"}

\* ------------------------------------------------- server: the event loop
\* Primary keys in use; crypto.randomUUID() returns a value outside it.
Uuids == {"u1", "u2", "u3"}
UsedIds ==
    DOMAIN conversations \cup MessageIds \cup CaptureIds \cup ChunkRowIds
randomUUID == CHOOSE u \in Uuids : u \notin UsedIds

\* Variant: a callback may start while a handler is still between two of
\* its store calls (as if the handlers awaited the store).
Reentrant == TRUE

\* A callback starts only when no other callback is running: handleMessage
\* and the store calls under it are synchronous.
RunToCompletion == stack = << >>

\* The call handleMessage(message, ws): its arguments, the calls it has yet to
\* make, and (history) the tables as they were when it was entered.
Frame(c, message, now) ==
    [conn |-> c, id |-> message.id, type |-> message.type, data |-> message.data,
     todo |-> Dispatch(message, now, randomUUID), before |-> db]

RemoveAt(s, i) == [j \in 1..(Len(s) - 1) |-> IF j < i THEN s[j] ELSE s[j + 1]]

\* wss.on('connection')
OnConnection(c) ==
    /\ RunToCompletion
    /\ readyState[c] = "NONE"
    /\ clients' = clients \cup {c}
    /\ readyState' = [readyState EXCEPT ![c] = "OPEN"]
    /\ sent' = [sent EXCEPT ![c] = Append(@, Welcome)]
    /\ UNCHANGED <<db, stack, lastCall, lastError, calls, history, HostVars, ExtensionVars>>

\* Variant: the close handler only logs; the socket stays in the set.
OnCloseKeepsClient(c) ==
    /\ RunToCompletion
    /\ readyState[c] = "OPEN"
    /\ readyState' = [readyState EXCEPT ![c] = "CLOSED"]
    /\ UNCHANGED <<db, clients, sent, stack, lastCall, lastError, calls, history, HostVars, ExtensionVars>>

\* ws.on('close'), after the peer's close or a transport error ('error'
\* only logs and is followed by 'close')
OnClose(c) ==
    /\ RunToCompletion
    /\ readyState[c] = "OPEN"
    /\ readyState' = [readyState EXCEPT ![c] = "CLOSED"]
    /\ clients' = clients \ {c}
    /\ UNCHANGED <<db, sent, stack, lastCall, lastError, calls, history, HostVars, ExtensionVars>>

\* ws.on('message') with a payload JSON.parse rejects
OnInvalidJson(c) ==
    /\ RunToCompletion
    /\ readyState[c] = "OPEN"
    /\ calls < MaxEnvelopes
    /\ calls' = calls + 1
    /\ sent' = sendError([sent EXCEPT ![c] = << >>], c, "Invalid JSON")
    /\ UNCHANGED <<db, clients, readyState, stack, lastCall, lastError, history, HostVars, ExtensionVars>>

\* ws.on('message') with a parsed envelope: handleMessage is entered
OnMessage(c) ==
    /\ RunToCompletion
    /\ readyState[c] = "OPEN"
    /\ calls < MaxEnvelopes
    /\ Uuids \ UsedIds # {}
    /\ \E message \in Envelopes, now \in Times :
          stack' = Append(stack, Frame(c, message, now))
    /\ calls' = calls + 1
    /\ sent' = [sent EXCEPT ![c] = << >>]
    /\ UNCHANGED <<db, clients, readyState, lastCall, lastError, history, HostVars, ExtensionVars>>

\* After a store call of frame i: go on with the handler if it returned, or
\* leave through the catch of handleMessage if it threw.
Continue(i) ==
    /\ IF lastError' = NoError
       THEN /\ stack' = [stack EXCEPT ![i].todo = Tail(@)]
            /\ UNCHANGED sent
       ELSE /\ stack' = RemoveAt(stack, i)
            /\ sent' = sendError(sent, stack[i].conn, lastError')
    /\ UNCHANGED <<clients, readyState, calls, HostVars, ExtensionVars>>

Running(i, op) ==
    /\ i \in 1..Len(stack)
    /\ stack[i].todo # << >>
    /\ Head(stack[i].todo).op = op

RunUpsertConversation ==
    \E i \in 1..Len(stack) :
        /\ Running(i, "upsertConversation")
        /\ upsertConversation(Head(stack[i].todo).data)
        /\ Continue(i)

RunInsertMessage ==
    \E i \in 1..Len(stack) :
        /\ Running(i, "insertMessage")
        /\ insertMessage(Head(stack[i].todo).data)
        /\ Continue(i)

RunInsertApiCapture ==
    \E i \in 1..Len(stack) :
        /\ Running(i, "insertApiCapture")
        /\ insertApiCapture(Head(stack[i].todo).data)
        /\ Continue(i)

RunUpsertSystemPrompt ==
    \E i \in 1..Len(stack) :
        /\ Running(i, "upsertSystemPrompt")
        /\ \E now \in Times : upsertSystemPrompt(Head(stack[i].todo).data, now)
        /\ Continue(i)

RunInsertStreamingChunk ==
    \E i \in 1..Len(stack) :
        /\ Running(i, "insertStreamingChunk")
        /\ insertStreamingChunk(Head(stack[i].todo).data)
        /\ Continue(i)

\* Variant: the pong goes to every client (broadcast) instead of the sender.
RunPongBroadcast ==
    \E i \in 1..Len(stack) :
        /\ Running(i, "pong")
        /\ sent' = [c \in Conns |-> send(sent, c, Pong)[c]]
        /\ stack' = [stack EXCEPT ![i].todo = Tail(@)]
        /\ UNCHANGED <<db, clients, readyState, lastCall, lastError, calls, history, HostVars, ExtensionVars>>

\* case 'ping'
RunPong ==
    \E i \in 1..Len(stack) :
        /\ Running(i, "pong")
        /\ sent' = send(sent, stack[i].conn, Pong)
        /\ stack' = [stack EXCEPT ![i].todo = Tail(@)]
        /\ UNCHANGED <<db, clients, readyState, lastCall, lastError, calls, history, HostVars, ExtensionVars>>

\* The acknowledgment after the switch of handleMessage.
SendAck ==
    \E i \in 1..Len(stack) :
        /\ stack[i].todo = << >>
        /\ sent' = send(sent, stack[i].conn, Ack(stack[i].id))
        /\ stack' = RemoveAt(stack, i)
        /\ UNCHANGED <<db, clients, readyState, lastCall, lastError, calls, history, HostVars, ExtensionVars>>

\* The server is started on a database file that earlier runs have written:
\* empty, holding one conversation, or holding a conversation and a message.
SeedConversation ==
    [platform |-> "chatgpt", started_at |-> 1, last_activity |-> 1,
     title |-> NullStr, message_count |-> 0, total_tokens |-> 0, metadata |-> "{}"]

SeedMessage ==
    [id |-> "m1", conversation_id |-> "c1", timestamp |-> 1, role |-> "user",
     visible_content |-> "hello", message_position |-> NULL, tokens_total |-> 10]

ServerInit ==
    /\ \/ conversations = << >> /\ messages = << >>
       \/ conversations = [i \in {"c1"} |-> SeedConversation] /\ messages = << >>
       \/ /\ conversations = [i \in {"c1"} |->
                 update_conversation_stats([j \in {"c1"} |-> SeedConversation],
                                           SeedMessage)[i]]
          /\ messages = <<SeedMessage>>
    /\ api_captures = << >>
    /\ system_prompts = << >>
    /\ streaming_chunks = << >>
    /\ settings = DefaultSettings
    /\ clients = {}
    /\ readyState = [c \in Conns |-> "NONE"]
    /\ sent = [c \in Conns |-> << >>]
    /\ stack = << >>
    /\ lastCall = NoCall
    /\ lastError = NoError
    /\ calls = 0
    /\ pristine = {}
    /\ observed = [t \in Texts |-> NotObserved]
    /\ HostConstructed(<< >>)
    /\ ExtensionConstructed

ServerNext ==
    \/ \E c \in Conns : OnConnection(c)
    \/ \E c \in Conns : OnClose(c)
    \/ \E c \in Conns : OnInvalidJson(c)
    \/ \E c \in Conns : OnMessage(c)
    \/ RunUpsertConversation
    \/ RunInsertMessage
    \/ RunInsertApiCapture
    \/ RunUpsertSystemPrompt
    \/ RunInsertStreamingChunk
    \/ RunPong
    \/ SendAck

ServerSpec == ServerInit /\ [][ServerNext]_vars


\* ------------------------------------- extension: the background worker
MaxCaptures == 2            \* captures the content scripts report in one run

\* A message of the background worker for the native app: { type, data }.
NativeMessage(t, d) == [type |-> t, data |-> d]

\* sendToNativeApp(message): posted if the port is connected, dropped if not.
sendToNativeApp(message) ==
    port' = IF isConnected THEN Append(port, message) ELSE port

\* connectToNativeApp(), from init() and from the reconnect timer: the port is
\* opened and the INIT message is posted.
connectToNativeApp ==
    /\ ~isConnected
    /\ Len(port) < MaxCaptures
    /\ isConnected' = TRUE
    /\ port' = Append(port, NativeMessage("INIT", [type |-> "extensionVersion"]))
    /\ UNCHANGED <<isTracking, local, IngestVars, HostVars>>

\* nativePort.onDisconnect
onDisconnect ==
    /\ isConnected
    /\ isConnected' = FALSE
    /\ UNCHANGED <<isTracking, local, port, IngestVars, HostVars>>

\* case 'toggle_tracking' of handleExtensionMessage
toggle_tracking(enabled) ==
    /\ isTracking' = enabled
    /\ UNCHANGED <<isConnected, local, port, IngestVars, HostVars>>

\* case 'MESSAGE_CAPTURED': handleMessageCapture(data, sender) stores the
\* message under its key and sends it to the native app.
StateManager_handleMessageCapture ==
    /\ Len(local) < MaxCaptures
    /\ local' = Append(local, "message")
    /\ sendToNativeApp(NativeMessage("MESSAGE_STORED", [type |-> "message"]))
    /\ UNCHANGED <<isTracking, isConnected, IngestVars, HostVars>>

\* case 'API_CAPTURED', and the request interceptor: handleApiCapture(data)
\* stores the system prompts of the request (n of them), stores the capture
\* and sends it to the native app.
StateManager_handleApiCapture ==
    /\ Len(local) < MaxCaptures
    /\ \E n \in 0..1 :
          local' = local \o [i \in 1..n |-> "sysprompt"] \o <<"api">>
    /\ sendToNativeApp(NativeMessage("API_CAPTURED", [type |-> "api"]))
    /\ UNCHANGED <<isTracking, isConnected, IngestVars, HostVars>>

\* The way of a posted message to the desktop app: Chrome frames it for the
\* native host, whose loop passes the parsed message to
\* sendMessageToDesktopApp, and the server's ws.on('message') enters
\* handleMessage with it.  The messages of the extension carry no id.
Relay(c) ==
    /\ RunToCompletion
    /\ readyState[c] = "OPEN"
    /\ port # << >>
    /\ calls < MaxEnvelopes
    /\ Uuids \ UsedIds # {}
    /\ \E now \in Times :
          stack' = Append(stack,
                          Frame(c, Envelope(Head(port).type, NullStr, Head(port).data), now))
    /\ port' = Tail(port)
    /\ calls' = calls + 1
    /\ sent' = [sent EXCEPT ![c] = << >>]
    /\ UNCHANGED <<db, clients, readyState, lastCall, lastError, history, HostVars,
                   isTracking, isConnected, local>>

ExtensionInit ==
    /\ conversations = << >>
    /\ messages = << >>
    /\ api_captures = << >>
    /\ system_prompts = << >>
    /\ streaming_chunks = << >>
    /\ settings = DefaultSettings
    /\ clients = {}
    /\ readyState = [c \in Conns |-> "NONE"]
    /\ sent = [c \in Conns |-> << >>]
    /\ stack = << >>
    /\ lastCall = NoCall
    /\ lastError = NoError
    /\ calls = 0
    /\ pristine = {}
    /\ observed = [t \in Texts |-> NotObserved]
    /\ HostConstructed(<< >>)
    /\ ExtensionConstructed

\* The handlers of the background worker, the relay of what it posts, and the
\* steps that handleMessage makes for it: the switch has no case for any
\* type the extension sends, so each relayed message ends in SendAck.
ExtensionNext ==
    \/ connectToNativeApp
    \/ onDisconnect
    \/ \E enabled \in BOOLEAN : toggle_tracking(enabled)
    \/ StateManager_handleMessageCapture
    \/ StateManager_handleApiCapture
    \/ \E c \in Conns : OnConnection(c)
    \/ \E c \in Conns : OnClose(c)
    \/ \E c \in Conns : Relay(c)
    \/ SendAck

ExtensionSpec == ExtensionInit /\ [][ExtensionNext]_vars


\* ================================================================ claims
\* A step of Spec that is a direct call of the store method `op`.
Called(op) == calls' = calls + 1 /\ lastCall'.op = op

\* C1: in every reachable state each conversation's message_count equals the
\* number of stored messages it owns and its total_tokens equals the sum of
\* their tokens_total.
AggregatesMatchMessages ==
    \A c \in DOMAIN conversations :
        /\ conversations[c].message_count = Len(MessagesOf(c))
        /\ conversations[c].total_tokens = SumTokens(MessagesOf(c))

\* C2: a conversation created with zero aggregates and written since only by
\* N successful insertMessage calls has message_count = N, total_tokens = the
\* sum of the inserted tokens_total (a missing one counting as 0) and
\* last_activity = the timestamp of the last inserted message.
InsertsMaintainAggregates ==
    \A c \in pristine :
        /\ c \in DOMAIN conversations
        /\ LET ms == MessagesOf(c) IN
           /\ conversations[c].message_count = Len(ms)
           /\ conversations[c].total_tokens = SumTokens(ms)
           /\ Len(ms) > 0 => conversations[c].last_activity = ms[Len(ms)].timestamp

\* Two inserts into a fresh conversation, the second without tokens_total and
\* with the earlier timestamp.
TwoInsertsIntoFreshConversation ==
    \E c \in pristine :
        LET ms == MessagesOf(c) IN
        /\ Len(ms) = 2
        /\ ms[1].tokens_total = 20 /\ ms[1].timestamp = 2
        /\ ms[2].tokens_total = NULL /\ ms[2].timestamp = 1

\* C3: insertMessage either stores the message row together with the owning
\* conversation's aggregate update (message_count + 1, total_tokens +
\* tokens_total, last_activity = timestamp) or, when it fails, does neither.
InsertMessageIndivisible ==
    [][Called("insertMessage") =>
        LET d == lastCall'.data
            c == d.conversation_id
            tokens == IF d.tokens_total = NULL THEN 0 ELSE d.tokens_total
        IN  IF lastError' = NoError
            THEN /\ Len(messages') = Len(messages) + 1
                 /\ SubSeq(messages', 1, Len(messages)) = messages
                 /\ messages'[Len(messages')].id = d.id
                 /\ messages'[Len(messages')].conversation_id = c
                 /\ c \in DOMAIN conversations
                 /\ conversations' =
                      [conversations EXCEPT ![c].message_count = @ + 1,
                                            ![c].total_tokens = @ + tokens,
                                            ![c].last_activity = d.timestamp]
            ELSE /\ messages' = messages
                 /\ conversations' = conversations]_vars

\* An insertMessage call has returned and its row is stored.
MessageInserted ==
    /\ lastCall.op = "insertMessage"
    /\ lastError = NoError
    /\ lastCall.data.id \in MessageIds

\* C4: once the server has started handling an envelope, every step until
\* that handler ends is a step of that same handler, and every change of the
\* store is the next store call of the one handler in progress.
HandlersNotInterleaved ==
    [][/\ stack # << >> =>
            /\ Len(stack) = 1
            /\ \/ stack' = << >>
               \/ /\ Len(stack') = 1
                  /\ stack'[1].conn = stack[1].conn
                  /\ stack'[1].id = stack[1].id
                  /\ stack'[1].todo = Tail(stack[1].todo)
       /\ db' # db =>
            /\ Len(stack) = 1
            /\ lastCall' = Head(stack[1].todo)]_vars

\* Two connections are open and a 'message' handler is between its insert
\* and its conversation upsert.
HandlerMidwayWithTwoConnections ==
    /\ Cardinality(clients) = 2
    /\ Len(stack) = 1
    /\ stack[1].type = "message"
    /\ Len(stack[1].todo) = 1
    /\ lastCall.op = "insertMessage"

\* C5: there is at most one system-prompt row per prompt text (prompt_hash is
\* unique), and a text upserted K times has exactly one row, with
\* occurrence_count = K.
PromptRowsOf(t) == {i \in 1..Len(system_prompts) : system_prompts[i].prompt_text = t}

SystemPromptsDeduplicated ==
    /\ \A i, j \in 1..Len(system_prompts) :
          i # j => /\ system_prompts[i].prompt_hash # system_prompts[j].prompt_hash
                   /\ system_prompts[i].prompt_text # system_prompts[j].prompt_text
    /\ \A t \in Texts :
          IF observed[t].count = 0 THEN PromptRowsOf(t) = {}
          ELSE \E i \in 1..Len(system_prompts) :
                  /\ PromptRowsOf(t) = {i}
                  /\ system_prompts[i].occurrence_count = observed[t].count

\* The same text upserted three times.
PromptUpsertedThreeTimes ==
    /\ Len(system_prompts) = 1
    /\ system_prompts[1].occurrence_count = 3
    /\ observed[system_prompts[1].prompt_text].count = 3

\* C6: an upsertSystemPrompt that hits an existing row increments its
\* occurrence_count and sets last_seen to the call's timestamp, leaving text
\* and first_seen untouched; so every row carries the first call's first_seen
\* and the latest call's last_seen.
PromptConflictKeepsFirstSeen ==
    /\ [](\A i \in 1..Len(system_prompts) :
            LET r == system_prompts[i] IN
            /\ r.prompt_hash = Sha256Hex(r.prompt_text)
            /\ r.first_seen = observed[r.prompt_text].first
            /\ r.last_seen = observed[r.prompt_text].last)
    /\ [][(Called("upsertSystemPrompt") /\ lastError' = NoError) =>
            LET d == lastCall'.data IN
            \A i \in 1..Len(system_prompts) :
                system_prompts[i].prompt_hash = Sha256Hex(d.prompt_text) =>
                    /\ Len(system_prompts') = Len(system_prompts)
                    /\ \E now \in Times :
                          system_prompts' =
                            [system_prompts EXCEPT
                               ![i].occurrence_count = @ + 1,
                               ![i].last_seen =
                                  IF d.last_seen = NULL THEN now ELSE d.last_seen]]_vars

\* Three upserts of one text: first seen at 2, last seen at 1.
ThirdUpsertSetsLastSeen ==
    \E i \in 1..Len(system_prompts) :
        /\ system_prompts[i].occurrence_count = 3
        /\ system_prompts[i].first_seen = 2
        /\ system_prompts[i].last_seen = 1
        /\ lastCall.op = "upsertSystemPrompt"

\* C7: upsertConversation inserts the row if the id is absent; if the id
\* exists it sets last_activity, message_count, total_tokens and metadata to
\* the supplied values and changes nothing else; a call that fails changes
\* nothing, and a call that supplies platform, started_at and last_activity
\* does not fail.
UpsertConversationFrame ==
    [][Called("upsertConversation") =>
        LET d == lastCall'.data
            supplied == [last_activity |-> d.last_activity,
                         message_count |-> IF d.message_count = NULL THEN 0
                                           ELSE d.message_count,
                         total_tokens |-> IF d.total_tokens = NULL THEN 0
                                          ELSE d.total_tokens,
                         metadata |-> IF d.metadata = NullStr THEN "{}" ELSE d.metadata]
        IN  /\ (d.platform # NullStr /\ d.started_at # NULL /\ d.last_activity # NULL)
                 => lastError' = NoError
            /\ lastError' # NoError => conversations' = conversations
            /\ lastError' = NoError =>
                 /\ DOMAIN conversations' = DOMAIN conversations \cup {d.id}
                 /\ \A j \in DOMAIN conversations \ {d.id} :
                       conversations'[j] = conversations[j]
                 /\ conversations'[d.id].last_activity = supplied.last_activity
                 /\ conversations'[d.id].message_count = supplied.message_count
                 /\ conversations'[d.id].total_tokens = supplied.total_tokens
                 /\ conversations'[d.id].metadata = supplied.metadata
                 /\ IF d.id \in DOMAIN conversations
                    THEN /\ conversations'[d.id].platform = conversations[d.id].platform
                         /\ conversations'[d.id].started_at = conversations[d.id].started_at
                         /\ conversations'[d.id].title = conversations[d.id].title
                    ELSE /\ conversations'[d.id].platform = d.platform
                         /\ conversations'[d.id].started_at = d.started_at
                         /\ conversations'[d.id].title = d.title]_vars

\* An upsert has hit an existing row whose platform, started_at and title
\* all differ from the supplied ones, and has set the supplied message_count.
UpsertHitExistingConversation ==
    /\ lastCall.op = "upsertConversation"
    /\ lastError = NoError
    /\ lastCall.data.id \in DOMAIN conversations
    /\ LET row == conversations[lastCall.data.id] IN
       /\ row.platform = "claude" /\ lastCall.data.platform = "chatgpt"
       /\ row.started_at = 2 /\ lastCall.data.started_at = 1
       /\ row.title = NullStr /\ lastCall.data.title = "T"
       /\ row.message_count = 2 /\ row.metadata = "{a}"

\* C8: every stored message names a stored conversation, and every stored
\* capture and streaming chunk names a stored message.
ReferentialIntegrity ==
    /\ \A i \in 1..Len(messages) : messages[i].conversation_id \in DOMAIN conversations
    /\ \A i \in 1..Len(api_captures) : api_captures[i].message_id \in MessageIds
    /\ \A i \in 1..Len(streaming_chunks) : streaming_chunks[i].message_id \in MessageIds

\* A conversation, a message in it and a capture of that message are stored.
CaptureChainStored ==
    /\ Len(api_captures) = 1
    /\ Len(messages) = 1
    /\ api_captures[1].message_id = messages[1].id
    /\ messages[1].conversation_id \in DOMAIN conversations

\* C9: insertApiCapture for a message_id that names no stored message throws
\* and leaves the store unchanged; for a stored message (given a request_url
\* and an unused capture id) it returns, and whenever it returns it has added
\* exactly one capture row, for that message.
InsertApiCaptureChecksMessage ==
    [][Called("insertApiCapture") =>
        LET d == lastCall'.data IN
        /\ d.message_id \notin MessageIds => lastError' # NoError
        /\ lastError' # NoError => db' = db
        /\ (d.message_id \in MessageIds /\ d.request_url # NullStr
            /\ d.id \notin CaptureIds) => lastError' = NoError
        /\ lastError' = NoError =>
             /\ Len(api_captures') = Len(api_captures) + 1
             /\ SubSeq(api_captures', 1, Len(api_captures)) = api_captures
             /\ api_captures'[Len(api_captures')].message_id = d.message_id
             /\ api_captures'[Len(api_captures')].id = d.id
             /\ UNCHANGED <<conversations, messages, system_prompts,
                            streaming_chunks>>]_vars

\* A capture for a message that is not stored has been refused while another
\* message is stored.
CaptureForMissingMessageRefused ==
    /\ lastCall.op = "insertApiCapture"
    /\ lastError = ForeignKeyError
    /\ Len(messages) = 1
    /\ api_captures = << >>

\* C10: when the handling of an envelope ends, the server has emitted exactly
\* one acknowledgment to the sender, carrying the envelope's id, whether the
\* handler succeeded or failed.
OneAckPerEnvelope ==
    [][(stack # << >> /\ stack' = << >>) =>
        LET out == sent'[stack[1].conn] IN
        /\ Cardinality({k \in 1..Len(out) : out[k].type = "ack"}) = 1
        /\ \E k \in 1..Len(out) : out[k] = Ack(stack[1].id)]_vars


\* C11: when a store call of a handler throws, the handler ends there and the
\* server writes exactly one {type: 'error', error} frame, carrying what the
\* call threw, to the connection the envelope came from and to no other; the
\* connection stays open and in the set of clients, so that the next
\* envelope on it is taken as before.
ErrorNotifiedOnce ==
    [][(/\ stack # << >>
        /\ stack[1].todo # << >>
        /\ Head(stack[1].todo).op # "pong"
        /\ lastError' # NoError) =>
        LET c == stack[1].conn
            out == sent'[c]
        IN  /\ stack' = << >>
            /\ out = Append(sent[c], [type |-> "error", error |-> lastError'])
            /\ Cardinality({k \in 1..Len(out) : out[k].type = "error"}) = 1
            /\ \A o \in Conns \ {c} : sent'[o] = sent[o]
            /\ readyState'[c] = "OPEN"
            /\ c \in clients'
            /\ UNCHANGED <<clients, readyState>>]_vars

\* On the only connection ever opened an envelope has failed in the store
\* and the next envelope, a ping, has been answered and acknowledged.
PingAnsweredAfterStoreError ==
    /\ lastError # NoError
    /\ calls = 2
    /\ stack = << >>
    /\ \E c \in Conns :
          /\ readyState[c] = "OPEN"
          /\ c \in clients
          /\ \A o \in Conns \ {c} : readyState[o] = "NONE"
          /\ Len(sent[c]) = 2
          /\ sent[c][1] = Pong
          /\ sent[c][2].type = "ack"


\* ------------------------------------------------- claims: the native host
\* The messages of the ws.send calls made so far.
WireMessages == [i \in 1..Len(wire) |-> wire[i].message]

\* A step in which sendMessageToDesktopApp is called.
Sending == Len(produced') = Len(produced) + 1

\* C12: while the bridge client is not connected (this.ws is null, or the
\* socket is connecting or closing) every sendMessageToDesktopApp call
\* appends its message to the tail of messageQueue and sends nothing.
NotConnectedSendsAreQueued ==
    [][(Sending /\ ws # "OPEN") =>
        /\ messageQueue' = Append(messageQueue, produced'[Len(produced')])
        /\ wire' = wire]_vars

\* Two messages have been queued behind a socket that is closing.
TwoQueuedWhileClosing ==
    /\ ws = "CLOSING"
    /\ pc = "waitHeader"
    /\ wire = << >>
    /\ messageQueue = <<EAcute, EmptyObject>>
    /\ produced = messageQueue

\* C13: the messages are sent in the order in which they were given to
\* sendMessageToDesktopApp, the queued ones included: what has been sent,
\* followed by the queue, is what was given; the 'open' handler sends the
\* whole queue in its order and leaves it empty, so that nothing is queued
\* while the socket is open and a later message is sent after the queue.
QueueDrainedInOrder ==
    /\ [](/\ WireMessages \o messageQueue = produced
          /\ ws = "OPEN" => messageQueue = << >>)
    /\ [][(ws # "OPEN" /\ ws' = "OPEN") =>
            /\ messageQueue' = << >>
            /\ Len(wire') = Len(wire) + Len(messageQueue)
            /\ \A i \in 1..Len(messageQueue) :
                  wire'[Len(wire) + i] = Transmit(messageQueue[i], TRUE)]_vars

\* After a reconnect, two different messages that were queued have been sent
\* from the queue.
TwoDrainedAfterReconnect ==
    /\ ws = "OPEN"
    /\ ~awaited
    /\ Len(wire) = 2
    /\ wire[1] = Transmit(EAcute, TRUE)
    /\ wire[2] = Transmit(EmptyObject, TRUE)


\* C14: the counter of reconnect attempts that failed since the last 'open'
\* never passes maxReconnectAttempts; once it has reached it there is no
\* socket and no pending timer, and that stays so: the host makes no further
\* connection attempt (the class has no reset).
ReconnectStopsAtMaximum ==
    /\ [](/\ failed <= maxReconnectAttempts
          /\ reconnectAttempts <= maxReconnectAttempts
          /\ failed = maxReconnectAttempts => (ws = "null" /\ ~timer))
    /\ [][failed = maxReconnectAttempts =>
            (ws' = "null" /\ ~timer' /\ failed' = failed)]_vars

\* The reconnect attempts are used up: no socket, no timer, and two messages
\* waiting in the queue.
QueuedAfterAttemptsExhausted ==
    /\ failed = maxReconnectAttempts
    /\ reconnectAttempts = maxReconnectAttempts
    /\ ws = "null"
    /\ ~timer
    /\ Len(messageQueue) = 2


\* Every frame Chrome writes in this run is the frame of a message.
EveryFrameEncoded ==
    \A i \in 1..Len(frames) : \E m \in Messages : frames[i] = FrameOf(m)

\* C15: the host keeps reading stdin whatever the state of the bridge, also
\* when the first connection attempt fails and when the reconnect attempts
\* are used up: every frame written to stdin is eventually read and given to
\* sendMessageToDesktopApp (which queues it while the bridge is not
\* connected).  Stated for runs whose frames all carry a message.
FramesEventuallyAccepted ==
    EveryFrameEncoded ~> (Len(produced) = Len(frames))


\* C16: once start() has left its loop and run its cleanup, no connection
\* attempt is made any more: no socket is created after the shutdown.
NoConnectAfterShutdown ==
    [][pc = "stopped" => (ws' = "CONNECTING" => ws = "CONNECTING")]_vars


\* The messages whose frames Chrome writes in this run.
FramedMessages ==
    [i \in 1..Len(frames) |-> CHOOSE m \in Messages : FrameOf(m) = frames[i]]

\* C17: when the bytes on stdin are the frames sendMessageToChrome writes for
\* a sequence of messages, readMessageFromChrome yields those messages in
\* that order however the bytes are cut into reads: what has been decoded is
\* always a prefix of the sequence, and when all bytes have arrived and the
\* reader waits for more, it waits for a header, has used every byte and
\* has decoded the whole sequence.
FramerRoundTrip ==
    EveryFrameEncoded =>
        /\ Len(produced) <= Len(frames)
        /\ produced = SubSeq(FramedMessages, 1, Len(produced))
        /\ (pipe = << >> /\ pc \in {"waitHeader", "waitChunk"}) =>
              /\ pc = "waitHeader"
              /\ stdin = << >>
              /\ produced = FramedMessages

\* The first of two frames has been decoded from a read that also held the
\* header and half the payload of the second, whose rest has not arrived.
SecondFrameSplitAcrossReads ==
    /\ frames = <<FrameOf(EmptyObject), FrameOf(EAcute)>>
    /\ produced = <<EmptyObject>>
    /\ pc = "waitChunk"
    /\ messageLength = 4
    /\ Len(stdin) = 2
    /\ Len(pipe) = 2


\* C18: every sendMessageToChrome call makes two writes, a header of four
\* bytes that is the little-endian number of bytes of the second write, and
\* the UTF-8 JSON text, which parses back to the message; the same holds of
\* what it writes for each message of the model.
LengthPrefixMatchesPayload ==
    /\ \A m \in Messages :
          LET w == sendMessageToChrome(m) IN
          /\ Len(w) = 2
          /\ Len(w[1]) = 4
          /\ \A i \in 1..4 : w[1][i] \in 0..255
          /\ w[1][1] + 256 * w[1][2] + 65536 * w[1][3] + 16777216 * w[1][4] = Len(w[2])
          /\ JSONParse(BufferToString(w[2])) = m
    /\ writes # << >> =>
          /\ Len(writes) = 2
          /\ Len(writes[1]) = 4
          /\ writes[1][1] + 256 * writes[1][2] + 65536 * writes[1][3]
                + 16777216 * writes[1][4] = Len(writes[2])
          /\ JSONParse(BufferToString(writes[2])) \in Messages

\* The string with the two-byte character has been written to stdout: a
\* prefix of 4 for a JSON text of three characters.
TwoByteCharacterWritten ==
    /\ ws = "OPEN"
    /\ writes = <<<<4, 0, 0, 0>>, <<34, 195, 169, 34>>>>


\* The configured maximum of a frame's declared length that the
\* specification of the framer speaks of; the host has no such setting.
maxMessageLength == 1048576

\* C19: a header declaring more than the maximum is refused: the reader
\* never sets out to read (and allocates no buffer for) a payload longer
\* than the maximum.
DeclaredLengthBounded ==
    pc \in {"readChunk", "waitChunk"} => messageLength <= maxMessageLength


\* The messages of the frames of this run that carry one, in order.
RECURSIVE MessagesIn(_)
MessagesIn(fs) ==
    IF fs = << >> THEN << >>
    ELSE (IF \E m \in Messages : FrameOf(m) = Head(fs)
          THEN <<CHOOSE m \in Messages : FrameOf(m) = Head(fs)>> ELSE << >>)
         \o MessagesIn(Tail(fs))

\* C20: a frame whose payload is no JSON (the text EOF, an empty payload) is
\* dropped alone.  In a run without an oversized header the messages given
\* to sendMessageToDesktopApp are always a prefix of the messages of the
\* well-formed frames, and when every byte has arrived and start() is not
\* running, it waits for the next header with all of them passed on: the
\* loop has neither ended nor got stuck in a frame.
UnparseableFrameDroppedAlone ==
    (\A i \in 1..Len(frames) : frames[i] # HugeFrame) =>
        /\ Len(produced) <= Len(MessagesIn(frames))
        /\ produced = SubSeq(MessagesIn(frames), 1, Len(produced))
        /\ (pipe = << >> /\ pc \in {"waitHeader", "waitChunk", "stopped"}) =>
              /\ pc = "waitHeader"
              /\ produced = MessagesIn(frames)


\* The write calls that forward the JSON texts among `ds` as they are, one
\* frame each, in their order: a header counting the bytes of the text, then
\* the text.
RECURSIVE FramesOfTexts(_)
FramesOfTexts(ds) ==
    IF ds = << >> THEN << >>
    ELSE (IF JSONParse(BufferToString(Head(ds))).kind = "SyntaxError" THEN << >>
          ELSE <<writeUInt32LE(Len(Head(ds))), Head(ds)>>)
         \o FramesOfTexts(Tail(ds))

\* C21: the 'message' events of the socket come while it is open, and what
\* has been written to stdout is always one frame for each JSON text
\* received, carrying the bytes of that text, in the order of reception (a
\* text that is no JSON is logged and not forwarded); the event for a JSON
\* text appends its frame, two writes, behind the earlier ones.
ReceivedForwardedInOrder ==
    /\ [](stdout = FramesOfTexts(received))
    /\ [][received' # received =>
            /\ ws = "OPEN"
            /\ Len(received') = Len(received) + 1
            /\ stdout' = stdout \o FramesOfTexts(<<received'[Len(received')]>>)]_vars

\* Two different messages of the server have been forwarded over the open
\* socket, in the order they came.
TwoMessagesForwarded ==
    /\ ws = "OPEN"
    /\ received = <<BufferFrom(JSONStringify(EAcute)), BufferFrom(JSONStringify(EmptyObject))>>
    /\ stdout = <<<<4, 0, 0, 0>>, <<34, 195, 169, 34>>, <<2, 0, 0, 0>>, <<123, 125>>>>


\* ------------------------------------------------- claims: the server, II
\* The envelope being handled, or just taken up, in this step has a type the
\* switch of handleMessage does not know.
UnknownTypeInHand ==
    \/ stack # << >> /\ stack[1].type \notin KnownTypes
    \/ stack' # << >> /\ stack'[1].type \notin KnownTypes

\* C22: handling an envelope of unknown type, from the moment it is taken up
\* to the end of handleMessage, leaves the five tables as they are, makes no
\* store call, sends no error notification to any connection and leaves
\* every connection open and in the active set.
UnknownTypeIgnored ==
    [][UnknownTypeInHand =>
        /\ db' = db
        /\ lastCall' = lastCall
        /\ readyState' = readyState
        /\ clients' = clients
        /\ \A c \in Conns :
              \/ sent'[c] = sent[c]
              \/ sent'[c] = << >>
              \/ /\ Len(sent'[c]) = Len(sent[c]) + 1
                 /\ sent'[c][Len(sent'[c])].type # "error"]_vars

\* An envelope of unknown type (it carries no id) has been handled on a
\* connection that is still open, on a database that holds a message.
UnknownTypeHandled ==
    /\ stack = << >>
    /\ readyState["w1"] = "OPEN"
    /\ "w1" \in clients
    /\ sent["w1"] = <<Ack(NullStr)>>
    /\ Len(messages) = 1


\* The envelope being handled, or just taken up, in this step is a ping.
PingInHand ==
    \/ stack # << >> /\ stack[1].type = "ping"
    \/ stack' # << >> /\ stack'[1].type = "ping"

\* C23: handling a ping makes no store call and changes no table, and
\* writes to no connection but the sender's; when handleMessage ends, what
\* the sender has been sent for this envelope is one pong, followed by the
\* acknowledgment.
PingAnsweredWithOnePong ==
    [][PingInHand =>
        /\ db' = db
        /\ lastCall' = lastCall
        /\ LET f == IF stack # << >> THEN stack[1] ELSE stack'[1] IN
           /\ \A o \in Conns \ {f.conn} : sent'[o] = sent[o]
           /\ stack' = << >> =>
                 /\ sent'[f.conn] = <<Pong, Ack(f.id)>>
                 /\ Cardinality({k \in 1..Len(sent'[f.conn]) :
                                    sent'[f.conn][k].type = "pong"}) = 1]_vars

\* A ping has been answered on the second connection while the first, also
\* open, has been sent nothing since its welcome; the store holds a message.
PongSentToSenderOnly ==
    /\ stack = << >>
    /\ readyState = [c \in Conns |-> "OPEN"]
    /\ sent["w1"] = <<Welcome>>
    /\ sent["w2"] = <<Pong, Ack("e2")>>
    /\ Len(messages) = 1


RowidOf(id) == CHOOSE i \in 1..Len(messages) : messages[i].id = id

Matching(term) ==
    {c \in DOMAIN conversations :
        \/ Like(conversations[c].title, term)
        \/ \E i \in 1..Len(messages) :
              messages[i].conversation_id = c /\ Like(messages[i].visible_content, term)}

\* C26: searchConversations(term) returns the conversations whose title
\* contains the term or that own a message whose content contains it (all
\* of them while they are fewer than the cap), and no other, each once, the
\* most recent last_activity first.
SearchReturnsEveryMatch ==
    \A term \in SearchTerms : \A r \in searchConversations(term) :
        /\ Cardinality(Matching(term)) <= SearchLimit =>
              {r[k] : k \in 1..Len(r)} = Matching(term)
        /\ \A k, l \in 1..Len(r) :
              k < l => /\ r[k] # r[l]
                       /\ conversations[r[k]].last_activity
                            >= conversations[r[l]].last_activity



\* C27: the store holds no capture of a platform whose tracking flag is off
\* (the flags are read-only to the store and the server, so a capture that
\* is stored was submitted under the flags of the current state).
NoCaptureOfDisabledPlatform ==
    \A i \in 1..Len(api_captures) :
        api_captures[i].platform # NullStr =>
            settings[TrackKey(api_captures[i].platform)] = "1"


\* C28: the chunks stored for one message have strictly increasing
\* chunk_index in insertion order.
ChunkIndexStrictlyIncreasing ==
    \A i, j \in 1..Len(streaming_chunks) :
        (i < j /\ streaming_chunks[i].message_id = streaming_chunks[j].message_id) =>
            streaming_chunks[i].chunk_index < streaming_chunks[j].chunk_index


\* ------------------------------------------------ claims: the server, III
\* This step ends the handling of an envelope of the given type.
Ends(type) == stack # << >> /\ stack' = << >> /\ stack[1].type = type

\* C29: when the handling of a 'message' envelope ends and the conversation
\* it names was not stored when the handling began, the store holds that
\* conversation and a new message of it.
FirstMessageCreatesConversation ==
    [][(/\ Ends("message")
        /\ stack[1].data.conversation_id \notin DOMAIN stack[1].before[1]) =>
        /\ stack[1].data.conversation_id \in DOMAIN conversations'
        /\ Len(messages') > Len(stack[1].before[2])
        /\ messages'[Len(messages')].conversation_id = stack[1].data.conversation_id]_vars


\* C30: when the handling of an envelope ends with an error notification to
\* its sender, the tables are as they were when the handling began.
ErrorLeavesStoreUnchanged ==
    [][(/\ stack # << >>
        /\ stack' = << >>
        /\ LET c == stack[1].conn IN
           /\ Len(sent'[c]) = Len(sent[c]) + 1
           /\ sent'[c][Len(sent'[c])].type = "error") =>
        db' = stack[1].before]_vars


\* C31: when the handling of a 'message' envelope ends, the conversation it
\* names having been stored and its message id not in use when the handling
\* began, the message has been stored and the sender has been sent the
\* acknowledgment and nothing else, in particular no error notification.
MessageForStoredConversationAcked ==
    [][(/\ Ends("message")
        /\ stack[1].data.conversation_id \in DOMAIN stack[1].before[1]
        /\ \A i \in 1..Len(stack[1].before[2]) :
              stack[1].before[2][i].id # stack[1].data.id) =>
        /\ Len(messages') = Len(stack[1].before[2]) + 1
        /\ messages'[Len(messages')].conversation_id = stack[1].data.conversation_id
        /\ sent'[stack[1].conn] = <<Ack(stack[1].id)>>]_vars


\* ------------------------------------------------ claims: the native host, II
\* How often the message m occurs in the sequence s.
Occurrences(s, m) == Cardinality({i \in 1..Len(s) : s[i] = m})

\* C32: each message given to sendMessageToDesktopApp is, as often as it was
\* given, either among the ws.send calls or in messageQueue, never both and
\* never neither; a step adds a ws.send call only for a message given in
\* that step or taken out of the queue in that step.
NoMessageLostOrDuplicated ==
    /\ [](/\ Len(wire) + Len(messageQueue) = Len(produced)
          /\ \A m \in Messages :
                Occurrences(produced, m)
                    = Occurrences(WireMessages, m) + Occurrences(messageQueue, m))
    /\ [][Len(wire') - Len(wire)
            = (Len(produced') - Len(produced)) + (Len(messageQueue) - Len(messageQueue'))]_vars

\* After a close and during the reconnect: the first message was sent on
\* the socket that has since closed, the second waits in the queue.
OneSentOneQueuedAcrossClose ==
    /\ ws = "CONNECTING"
    /\ ~awaited
    /\ reconnectAttempts = 1
    /\ produced = <<EmptyObject, EAcute>>
    /\ wire = <<Transmit(EmptyObject, FALSE)>>
    /\ messageQueue = <<EAcute>>


\* A connection effort is in progress: a socket is connecting or the
\* reconnect timer is pending.
ConnectionEffort == ws = "CONNECTING" \/ timer

\* C33: a connection effort that is in progress leads to an open socket
\* with every message given so far transmitted and the queue empty, unless
\* a further reconnect attempt fails first (the server is still not
\* reachable) or start() leaves its loop and closes the socket.
ReconnectTransmitsQueue ==
    \A k \in 0..maxReconnectAttempts :
        (ConnectionEffort /\ failed = k)
            ~> \/ /\ ws = "OPEN"
                  /\ messageQueue = << >>
                  /\ WireMessages = produced
               \/ failed > k
               \/ pc = "stopped"

\* A message sent on the first connection, then a close, a message queued,
\* and a reconnect that has sent the queued message.
QueuedMessageSentOnReconnect ==
    /\ ws = "OPEN"
    /\ ~awaited
    /\ messageQueue = << >>
    /\ wire = <<Transmit(EmptyObject, FALSE), Transmit(EAcute, TRUE)>>


\* C34: at most one WebSocket object of the host is alive (connecting, open
\* or closing), it is the one this.ws refers to, and the reconnect timer is
\* never pending while one is alive; the timer is armed only when none is
\* pending, by the close of the last socket, and a socket is created only
\* when none is alive.
OneConnectionEffort ==
    /\ [](/\ sockets <= 1
          /\ (sockets = 1) = (ws # "null")
          /\ ~(timer /\ sockets > 0))
    /\ [][/\ (reconnectAttempts' = reconnectAttempts + 1) =>
                (~timer /\ timer' /\ sockets' = 0)
          /\ (sockets' > sockets) => (sockets = 0 /\ ~timer')]_vars

\* The second reconnect attempt is under way: one socket, connecting, no
\* timer, after the first reconnect attempt has failed.
SecondReconnectAttemptUnderWay ==
    /\ ws = "CONNECTING"
    /\ sockets = 1
    /\ ~timer
    /\ reconnectAttempts = 2
    /\ failed = 1

\* ------------------------------------------------------------------ C35
\* C35: when stdin has ended, start() leaves its loop and closes the socket:
\* from every state in which the stream has ended and the socket is open, the
\* host comes to its stopped state, or the socket is at least no longer open.
StdinEndStopsHost ==
    (ended /\ ws = "OPEN") ~> (pc = "stopped" \/ ws # "OPEN")

\* ------------------------------------------------------------------ C36
\* C36: a capture that the background worker has posted is dispatched to a
\* store insert when it reaches the server: handleMessage, entered with the
\* relayed MESSAGE_STORED or API_CAPTURED message, has an insertMessage or an
\* insertApiCapture call to make.
RelayedCaptureDispatchedToInsert ==
    [][(/\ port # << >>
        /\ port' = Tail(port)
        /\ Head(port).type \in {"MESSAGE_STORED", "API_CAPTURED"})
          => LET todo == stack'[Len(stack')].todo IN
             \E k \in 1..Len(todo) : todo[k].op \in {"insertMessage", "insertApiCapture"}]_vars

\* ------------------------------------------------------------------ C37
\* C37: while tracking is paused the background worker neither stores nor
\* forwards a capture: a step taken with isTracking false writes no captured
\* data to chrome.storage.local and posts no MESSAGE_STORED or API_CAPTURED
\* message on the native port.
PausedTrackingCapturesNothing ==
    [][~isTracking =>
          /\ local' = local
          /\ Len(port') > Len(port) =>
                port'[Len(port')].type \notin {"MESSAGE_STORED", "API_CAPTURED"}]_vars

\* ------------------------------------------------------------------ C38
\* C38: an insertMessage whose id is already stored throws and changes
\* neither the messages table nor any conversation row; and no store call
\* changes or removes a stored message: every call leaves the rows that were
\* there as they were, in their places.
StoredMessagesImmutable ==
    /\ [][(Called("insertMessage") /\ lastCall'.data.id \in MessageIds) =>
            /\ lastError' # NoError
            /\ messages' = messages
            /\ conversations' = conversations]_vars
    /\ [][/\ Len(messages') >= Len(messages)
          /\ SubSeq(messages', 1, Len(messages)) = messages]_vars

\* A message has been refused for its id, the row with that id being stored
\* and counted in its conversation.
DuplicateMessageRefused ==
    /\ lastCall.op = "insertMessage"
    /\ lastError = UniqueError
    /\ \E i \in 1..Len(messages) :
          /\ messages[i].id = lastCall.data.id
          /\ conversations[messages[i].conversation_id].message_count >= 1

\* ------------------------------------------------------------------ C39
\* The occurrences that the system-prompt rows count for the text t.
RECURSIVE PromptOccurrences(_, _)
PromptOccurrences(rows, t) ==
    IF rows = << >> THEN 0
    ELSE (IF Head(rows).prompt_text = t THEN Head(rows).occurrence_count ELSE 0)
         + PromptOccurrences(Tail(rows), t)

\* C39: when handleMessage returns from an api_capture envelope, the rows
\* count, for every text, as many occurrences more than on entry as the
\* envelope's list holds that text (so n more in all for a list of n); and
\* when the insertApiCapture of the envelope throws, the handler ends there
\* with the system-prompt rows as they were on entry.
ApiCaptureCountsEachPrompt ==
    [][\A i \in 1..Len(stack) :
          stack[i].type = "api_capture" =>
             /\ (stack[i].todo = << >> /\ stack' = RemoveAt(stack, i)) =>
                   \A t \in Texts :
                      PromptOccurrences(system_prompts', t) =
                         PromptOccurrences(stack[i].before[4], t)
                         + Occurrences(stack[i].data.system_prompts, t)
             /\ (Running(i, "insertApiCapture") /\ lastError' # NoError) =>
                   /\ stack' = RemoveAt(stack, i)
                   /\ system_prompts' = stack[i].before[4]]_vars

\* The handler of an api_capture envelope listing the text P twice is about
\* to return, with a row for P that counted one occurrence on entry and
\* counts three now.
RepeatedPromptCountedTwice ==
    /\ Len(stack) = 1
    /\ stack[1].type = "api_capture"
    /\ stack[1].todo = << >>
    /\ stack[1].data.system_prompts = <<"P", "P">>
    /\ PromptOccurrences(stack[1].before[4], "P") = 1
    /\ PromptOccurrences(system_prompts, "P") = 3

\* ------------------------------------------------------------------ C40
\* C40: the rows are keyed on the text alone.  Every row carries the platform
\* of the first upsert of its text, getSystemPrompts returns it for that
\* platform and for no other, and an upsert of a stored text, from whatever
\* platform, adds no row and leaves the platform of the row as it is while
\* counting one occurrence more.
PromptKeyedOnTextAlone ==
    /\ [](\A i \in 1..Len(system_prompts) :
            LET r == system_prompts[i] IN
            /\ r.platform = observed[r.prompt_text].platform
            /\ \A p \in Platforms :
                  (\E k \in 1..Len(getSystemPrompts(p)) :
                      getSystemPrompts(p)[k].prompt_text = r.prompt_text)
                  <=> p = r.platform)
    /\ [][(Called("upsertSystemPrompt") /\ lastError' = NoError) =>
            LET d == lastCall'.data IN
            \A i \in 1..Len(system_prompts) :
                system_prompts[i].prompt_text = d.prompt_text =>
                    /\ Len(system_prompts') = Len(system_prompts)
                    /\ system_prompts'[i].platform = system_prompts[i].platform
                    /\ system_prompts'[i].occurrence_count =
                          system_prompts[i].occurrence_count + 1]_vars

\* The text P has been upserted from chatgpt and then from claude: one row,
\* of platform chatgpt, counting two occurrences, which getSystemPrompts
\* returns for chatgpt and not for claude.
SamePromptFromSecondPlatform ==
    /\ lastCall.op = "upsertSystemPrompt"
    /\ lastError = NoError
    /\ lastCall.data.platform = "claude"
    /\ lastCall.data.prompt_text = "P"
    /\ Len(system_prompts) = 1
    /\ system_prompts[1].platform = "chatgpt"
    /\ system_prompts[1].occurrence_count = 2
    /\ getSystemPrompts("claude") = << >>
    /\ getSystemPrompts("chatgpt") = system_prompts
    /\ getSystemPrompts(NullStr) = system_prompts
=============================================================================
